---- MODULE Spec2Model ----
(***************************************************************************)
(* Behaviour scripts of the portfolio site.  Three page scripts exist as   *)
(* successive drafts:                                                       *)
(*   "portfolio.js"  src/js/portfolio.js        class PortfolioWebsite     *)
(*   "part_000"      src/unnamed/part_000       class PortfolioWebsite     *)
(*   "main_js.js"    src/assets/js/main_js.js   class PortfolioSite        *)
(* plus the theme toggle (src/js/dark-mode.js, and the copy at the end of  *)
(* portfolio.js).  A page loads one of the drafts: the variable script     *)
(* says which, and the handlers of the other drafts never run.             *)
(* Definitions prefixed PW_ model PortfolioWebsite, PS_ PortfolioSite.     *)
(***************************************************************************)
EXTENDS Integers, Sequences, FiniteSets, TLC

VARIABLES
    script,             \* which draft the page loaded
    scrollY,            \* window.scrollY
    innerWidth,         \* window.innerWidth
    \* ---- PortfolioWebsite: nav chrome / visibility
    pw_lastCallAge,     \* Date.now() - lastCall of throttledScrollHandler, saturated at the delay
    pw_lastScrollY,     \* this.state.lastScrollY
    pw_navTransform,    \* this.dom.nav.style.transform
    pw_navBackground,   \* alpha of this.dom.nav.style.background ("" unset)
    pw_navBoxShadow,    \* this.dom.nav.style.boxShadow ("" unset)
    \* ---- PortfolioSite: nav chrome / visibility
    ps_scrollTimeout,   \* ms until the pending timer of this.scrollTimeout fires; -1: none pending
    ps_lastScrollY,     \* this.lastScrollY
    ps_navClasses,      \* classes of this.nav among nav--scrolled, nav--hidden
    \* ---- section registry and navigation links
    sections,           \* section[id] elements in document order: [id, top, height]
    links,              \* section ids that have a navigation link (href="#id")
    navHeight,          \* this.nav.offsetHeight
    pw_active,          \* ids of this.dom.navLinks carrying class active
    ps_active,          \* ids of this.navLinks (the cached originals) carrying class active
    ps_menuCreated,     \* .nav__mobile-menu exists in the nav
    ps_cloneActive,     \* ids of the cloned links in the mobile menu carrying class active
    ps_menuOpen,        \* .nav__mobile-menu carries class open
    ps_ariaExpanded,    \* aria-expanded of the toggle: "absent", "false" or "true"
    \* ---- observers of the scroll behaviour (history, not program state)
    sinceRaw,           \* ms since the last raw scroll event, saturated; -1: none yet
    rawDecreased,       \* the last raw scroll event lowered scrollY
    ticked,             \* some scroll tick has been processed
    tickCur,            \* offset of the most recent processed tick (before any: the stored offset)
    tickPrev,           \* offset of the tick processed before it
    tickWidth,          \* innerWidth at the most recent processed tick
    hiddenBefore,       \* the nav was hidden just before the most recent processed tick
    lastMatched,        \* id of the last section matched by the most recent matching tick; "none"
    scen,               \* length of the prefix of Scenario the processed ticks have followed; -1: left it
    \* ---- viewport intersection (lazy loading, reveal animations)
    ioTargets,          \* elements the IntersectionObserver observes
    ioQueue,            \* entries queued for the next callback: [target, isIntersecting]
    hasCounter,         \* lazy elements that contain a .counter
    pw_loaded,          \* lazy elements carrying class loaded
    pw_counterStarts,   \* per element: calls of animateCounter made by the callback
    ps_animated,        \* animated elements carrying class animate-slideUp
    lateEntry,          \* observer: elements that got a non-intersecting entry after being revealed
    revealCount,        \* observer: times the callback ran the reveal branch, per element
    \* ---- scroll progress indicator
    scrollHeight,       \* document.documentElement.scrollHeight
    innerHeight,        \* window.innerHeight
    pg_frames,          \* animation-frame callbacks requested by the scroll listener, not yet run
    pg_styleWidth,      \* progressBar.style.width as a percentage [kind, num, den]; kind "unset"
    pg_samples,         \* observer: the last two values the callback computed since the heights
                        \* last changed: [y, D, value]
    \* ---- counter animation
    ct_dataTarget,      \* parseInt(dataset.target) of the counter; 0 when it is 0
    ct_textDigits,      \* the digits of the counter's markup text, as a number
    ct_target,          \* target of the running animation
    ct_state,           \* "idle", "running" (a frame is requested) or "done"
    ct_shown,           \* the animation has written textContent
    ct_text,            \* the number in the counter's textContent
    ct_elapsed,         \* portfolio.js: currentTime - start at the last frame
    ct_steps,           \* part_000: additions of increment made to current
    ct_suffix,          \* the counter carries data-suffix
    ct_suffixShown,     \* the counter's textContent ends with the suffix
    \* ---- theme toggle
    th_hasToggle,       \* the page has #theme-toggle
    th_stored,          \* localStorage.getItem('theme'): "null", "light" or "dark"
    th_prefersDark,     \* matchMedia('(prefers-color-scheme: dark)').matches
    th_body,            \* classes of document.body among light-mode, dark-mode
    th_init,            \* initDarkMode has run
    th_clicks,          \* observer: clicks on the toggle so far
    th_preStored,       \* observer: the stored theme just before the last click
    th_prePrefersDark,  \* observer: the system preference at the last click
    \* ---- the page the script finds, and its start
    dom_nav,            \* the page has the nav bar (.nav)
    dom_toggle,         \* the page has the mobile menu toggle (and, in part_000, its container)
    dom_form,           \* the page has the contact form
    dom_submit,         \* the form's submit button: "none", "bare" (no .btn__text /
                        \* .btn__loading inside) or "full"
    dom_images,         \* the page has img[data-src] elements
    hasIO,              \* 'IntersectionObserver' in window
    nativeLazy,         \* 'loading' in HTMLImageElement.prototype
    envProcess,         \* the identifier process is declared (a bundler defines it)
    st_booted,          \* the DOMContentLoaded listener has run
    st_setup,           \* the steps of init() that returned
    st_thrown,          \* the init steps and handlers that raised an error
    st_ran,             \* the handlers that have run to their end
    \* ---- coalescing windows
    pw_hlLastCallAge,   \* Date.now() - lastCall of throttledHighlightSection, saturated at the delay
    sinceChrome,        \* observer: ms since the nav chrome / visibility was last updated,
                        \* saturated; -1: never
    sinceScan,          \* observer: the same for the section scan
    gapChrome,          \* observer: ms between the last two updates of the nav chrome; -1: none
    gapScan,            \* observer: the same for the section scan
    \* ---- contact form and toasts
    fm_name,            \* value of the field name
    fm_email,           \* value of the field email
    fm_message,         \* value of the field message
    fm_errors,          \* fields that carry the class error
    fm_messages,        \* fields whose inline error message is in the form (oldest first
                        \* under a shared parent, in the order of the form otherwise)
    fm_ariaInvalid,     \* fields that carry aria-invalid
    fm_sharedParent,    \* the three fields are children of one element
    fm_disabled,        \* submitButton.disabled
    fm_buttonText,      \* what the submit button shows: "Send" or "Sending"
    fm_calls,           \* submissions in flight, oldest first: [originalText]
    fm_runs,            \* observer: submissions started so far
    fm_outcomes,        \* observer: outcomes of the submissions that have settled
    toasts,             \* toasts created so far: [type, attached, show, frame, chain]
    toastLog,           \* observer: types of the toasts shown, in order
    wroteDetached,      \* observer: a callback has written to an element out of the document
    toastTransition,    \* removing class show from a .toast runs a CSS transition
    ct_attached,        \* the counter element is in the document
    \* ---- teardown (PortfolioSite.destroy)
    ps_scrollListeners, \* the functions registered on window for 'scroll'
    ps_destroyed,       \* destroy() has returned
    \* ---- PortfolioWebsite: the mobile menu, and the scroll lock of the page
    pw_menuActive,      \* .mobile-menu-container carries class active
    pw_ariaExpanded,    \* aria-expanded of .mobile-menu: "false" or "true"
    bodyOverflow,       \* document.body.style.overflow: "" or "hidden"
    \* ---- PortfolioWebsite: hero parallax (setupAnimations)
    px_enabled,         \* the hero exists and reduced motion is not preferred: the listener is registered
    px_ticking,         \* the closure variable ticking
    px_pending,         \* parallax callbacks in the animation-frame queue
    px_transform,       \* parallaxBg.style.transform, translateY in tenths of a pixel; -1: unset
    px_scrolled,        \* observer: a scroll event has been handled
    px_coalesced        \* observer: a scroll event has arrived while a callback was pending

scrollVars == <<pw_lastCallAge, pw_lastScrollY, pw_navTransform, pw_navBackground,
                pw_navBoxShadow, ps_scrollTimeout, ps_lastScrollY, ps_navClasses>>
linkVars == <<pw_active, ps_active, ps_menuCreated, ps_cloneActive, ps_menuOpen,
              ps_ariaExpanded>>
pageVars == <<script, sections, links, navHeight>>
tickObs == <<ticked, tickCur, tickPrev, tickWidth, hiddenBefore, scen, lastMatched>>
rawObs == <<sinceRaw, rawDecreased>>

revealVars == <<ioTargets, ioQueue, hasCounter, pw_loaded, pw_counterStarts, ps_animated,
                lateEntry, revealCount>>
navVars == <<scrollY, innerWidth, scrollVars, linkVars, tickObs, rawObs>>

progressVars == <<scrollHeight, innerHeight, pg_frames, pg_styleWidth, pg_samples>>
counterVars == <<ct_dataTarget, ct_textDigits, ct_target, ct_state, ct_shown, ct_text,
                 ct_elapsed, ct_steps, ct_suffix, ct_suffixShown>>
themeVars == <<th_hasToggle, th_stored, th_prefersDark, th_body, th_init, th_clicks,
               th_preStored, th_prePrefersDark>>

setupVars == <<dom_nav, dom_toggle, dom_form, dom_submit, dom_images, hasIO, nativeLazy,
              envProcess, st_booted, st_setup, st_thrown, st_ran>>
coalesceVars == <<pw_hlLastCallAge, sinceChrome, sinceScan, gapChrome, gapScan>>
formVars == <<fm_name, fm_email, fm_message, fm_errors, fm_messages, fm_ariaInvalid,
             fm_sharedParent, fm_disabled, fm_buttonText, fm_calls, fm_runs, fm_outcomes>>
toastVars == <<toasts, toastLog, wroteDetached, toastTransition>>
detachVars == <<ct_attached>>
destroyVars == <<ps_scrollListeners, ps_destroyed>>
menuVars == <<pw_menuActive, pw_ariaExpanded, bodyOverflow>>
parallaxVars == <<px_enabled, px_ticking, px_pending, px_transform, px_scrolled, px_coalesced>>
moreVars == <<setupVars, coalesceVars, formVars, toastVars, detachVars, destroyVars,
                   menuVars, parallaxVars>>

vars == <<pageVars, navVars, revealVars, progressVars, counterVars, themeVars, moreVars>>

\* What the nav handlers leave alone, and what the others do.
notNav == <<revealVars, progressVars, counterVars, themeVars, moreVars>>
notReveal == <<navVars, sections, links, navHeight, progressVars, counterVars, themeVars,
              moreVars>>
notProgress == <<script, innerWidth, scrollVars, linkVars, tickObs, rawObs, sections, links,
                 navHeight, revealVars, counterVars, themeVars, moreVars>>
notCounter == <<pageVars, navVars, revealVars, progressVars, themeVars, moreVars>>
notTheme == <<pageVars, scrollY, innerWidth, pw_lastCallAge, pw_lastScrollY, pw_navTransform,
              pw_navBoxShadow, ps_scrollTimeout, ps_lastScrollY, ps_navClasses, linkVars,
              tickObs, rawObs, revealVars, progressVars, counterVars, moreVars>>
notSetup == <<pageVars, navVars, revealVars, progressVars, counterVars, themeVars,
             coalesceVars, formVars, toastVars, detachVars, destroyVars,
                   menuVars, parallaxVars>>
notForm == <<pageVars, navVars, revealVars, progressVars, counterVars, themeVars,
            setupVars, coalesceVars, detachVars, destroyVars,
                   menuVars, parallaxVars>>

(***************************************************************************)
(* Program constants.                                                      *)
(***************************************************************************)
ScrollThrottleDelay == 10
DraftScrollThrottleDelay == 16
ScrollDebounceDelay == 16
ScrolledThreshold == 100
HideThreshold == 200
MobileMaxWidth == 768
ActivationLead == 100
LinkLeadExtra == 50
HighlightThrottleDelay == 100
FullPercent == 100
CounterDuration == 2000
DraftFrameInterval == 16

(***************************************************************************)
(* Bounds of the model.                                                    *)
(***************************************************************************)
NumTargets == 2
MaxEntries == 3
MaxFrames == 2
MaxClicks == 2
MaxSubmits == 2

(***************************************************************************)
(* Inputs.                                                                 *)
(***************************************************************************)
Scripts == {"portfolio.js", "part_000", "main_js.js"}
Offsets == {0, 50, 100, 150, 180, 200, 250}
Widths == {768, 769}
NavHeights == {50, 70}
TimeSteps == {4, 8}
Scenario == <<0, 50, 150, 250, 180>>

IsPW == script \in {"portfolio.js", "part_000"}
IsPS == script = "main_js.js"

Min(a, b) == IF a < b THEN a ELSE b
Max(a, b) == IF a > b THEN a ELSE b

\* The usual page: three disjoint sections with a gap, a link for each.
HomeLayout == << [id |-> "home", top |-> 0, height |-> 140],
                 [id |-> "about", top |-> 160, height |-> 140],
                 [id |-> "contact", top |-> 300, height |-> 100] >>


(***************************************************************************)
(* PortfolioWebsite: nav chrome and visibility (handleScroll), reached      *)
(* through throttle(callback, delay).                                       *)
(***************************************************************************)
PW_ThrottleDelay == IF script = "part_000" THEN DraftScrollThrottleDelay
                    ELSE ScrollThrottleDelay

\* A faulty variant: the chrome changes at the hide threshold.
PW_NavScrolled_Past200(currentScrollY) == currentScrollY > HideThreshold

\* currentScrollY > 100
PW_NavScrolled(currentScrollY) == currentScrollY > ScrolledThreshold

\* A faulty variant: hides past the threshold whatever the direction.
PW_NavHides_NoDirection(currentScrollY, lastScrollY) == currentScrollY > HideThreshold

PW_NavHides(currentScrollY, lastScrollY) ==
    currentScrollY > lastScrollY /\ currentScrollY > HideThreshold

PW_handleScroll(currentScrollY) ==
    /\ pw_navBackground' = IF PW_NavScrolled(currentScrollY) THEN "0.98" ELSE "0.95"
    /\ pw_navBoxShadow' = IF PW_NavScrolled(currentScrollY) THEN "shadow" ELSE "none"
    /\ pw_navTransform' = IF PW_NavHides(currentScrollY, pw_lastScrollY)
                          THEN "translateY(-100%)" ELSE "translateY(0)"
    /\ pw_lastScrollY' = currentScrollY

\* The wrapper throttle() returns: the call goes through when at least delay ms
\* have passed since the last call that went through, and is dropped otherwise.
PW_ThrottlePasses == pw_lastCallAge >= PW_ThrottleDelay

PW_throttledScrollHandler(currentScrollY) ==
    IF PW_ThrottlePasses
    THEN pw_lastCallAge' = 0 /\ PW_handleScroll(currentScrollY)
    ELSE UNCHANGED <<pw_lastCallAge, pw_lastScrollY, pw_navTransform,
                     pw_navBackground, pw_navBoxShadow>>

PW_hidden == pw_navTransform = "translateY(-100%)"
PW_scrolled == pw_navBoxShadow = "shadow"

(***************************************************************************)
(* Section highlighting.                                                   *)
(***************************************************************************)
InSection(scrollPosition, s) ==
    scrollPosition >= s.top /\ scrollPosition < s.top + s.height

\* sections.forEach: every matching section rewrites the marks of all links
\* (classList.toggle('active', href === '#' + id)).
RECURSIVE PW_ScanSections(_, _, _)
PW_ScanSections(i, active, scrollPosition) ==
    IF i > Len(sections) THEN active
    ELSE PW_ScanSections(i + 1,
                         IF InSection(scrollPosition, sections[i])
                         THEN {l \in links : l = sections[i].id}
                         ELSE active,
                         scrollPosition)

\* A faulty variant: the scan starts from a cleared set of marks.
PW_highlightActiveSection_ClearFirst(currentScrollY) ==
    pw_active' = PW_ScanSections(1, {}, currentScrollY + ActivationLead)

PW_highlightActiveSection(currentScrollY) ==
    pw_active' = PW_ScanSections(1, pw_active, currentScrollY + ActivationLead)

\* sections.forEach of updateActiveNavLink: every matching section clears the
\* cached links and marks document.querySelector('[href="#id"]'), the first
\* element of the document with that href: the original link, when there is one.
RECURSIVE PS_ScanSections(_, _, _)
PS_ScanSections(i, active, scrollPosition) ==
    IF i > Len(sections) THEN active
    ELSE PS_ScanSections(i + 1,
                         IF InSection(scrollPosition, sections[i])
                         THEN (IF sections[i].id \in links THEN {sections[i].id} ELSE {})
                         ELSE active,
                         scrollPosition)

PS_updateActiveNavLink(currentScrollY) ==
    ps_active' = PS_ScanSections(1, ps_active, currentScrollY + navHeight + LinkLeadExtra)

(***************************************************************************)
(* PortfolioSite: the debounced scroll handler of setupScrollNavigation.    *)
(***************************************************************************)
PS_updateNavBackground(currentScrollY) ==
    IF currentScrollY > ScrolledThreshold THEN {"nav--scrolled"} ELSE {}

\* The nav--hidden part of the class list after updateNavVisibility.
PS_updateNavVisibility(currentScrollY) ==
    IF innerWidth <= MobileMaxWidth
    THEN (IF currentScrollY > ps_lastScrollY /\ currentScrollY > HideThreshold
          THEN {"nav--hidden"} ELSE {})
    ELSE ps_navClasses \cap {"nav--hidden"}

\* handleScroll: clearTimeout(this.scrollTimeout); this.scrollTimeout = setTimeout(.., 16)
PS_handleScroll ==
    /\ ps_scrollTimeout' = ScrollDebounceDelay
    /\ UNCHANGED <<ps_lastScrollY, ps_navClasses, ps_active>>

\* The timer's callback.
PS_scrollTick(currentScrollY) ==
    /\ ps_navClasses' = PS_updateNavBackground(currentScrollY)
                            \cup PS_updateNavVisibility(currentScrollY)
    /\ PS_updateActiveNavLink(currentScrollY)
    /\ ps_lastScrollY' = currentScrollY

PS_hidden == "nav--hidden" \in ps_navClasses
PS_scrolled == "nav--scrolled" \in ps_navClasses

(***************************************************************************)
(* PortfolioSite: the mobile menu.                                         *)
(***************************************************************************)
\* createMobileMenu clones every cached link with cloneNode(true): a clone
\* starts with the classes its original has at that moment.
PS_createMobileMenu ==
    /\ ps_menuCreated' = TRUE
    /\ ps_cloneActive' = ps_active

\* Click on the toggle button.
PS_toggleMobileMenu ==
    LET isExpanded == ps_ariaExpanded = "true" IN
    /\ IF ps_menuCreated THEN UNCHANGED <<ps_menuCreated, ps_cloneActive>>
       ELSE PS_createMobileMenu
    /\ IF isExpanded
       THEN ps_ariaExpanded' = "false" /\ ps_menuOpen' = FALSE     \* closeMobileMenu()
       ELSE ps_ariaExpanded' = "true" /\ ps_menuOpen' = TRUE

\* Escape, a click outside the nav, or a click on a navigation link.
PS_closeMobileMenu ==
    /\ ps_ariaExpanded' = "false"
    /\ ps_menuOpen' = FALSE
    /\ UNCHANGED <<ps_menuCreated, ps_cloneActive>>


(***************************************************************************)
(* Observers.                                                              *)
(***************************************************************************)
\* A scroll tick with this offset is being processed; wasHidden is the nav's
\* state before it.
ObserveTick(offset, wasHidden) ==
    /\ ticked' = TRUE
    /\ tickPrev' = tickCur
    /\ tickCur' = offset
    /\ tickWidth' = innerWidth
    /\ hiddenBefore' = wasHidden
    /\ scen' = IF scen >= 0 /\ scen < Len(Scenario) /\ Scenario[scen + 1] = offset
               THEN scen + 1 ELSE -1
    /\ UNCHANGED lastMatched

(***************************************************************************)
(* The page under raw scroll events and passing time.                      *)
(***************************************************************************)
InitPage ==
    /\ script \in Scripts
    /\ scrollY \in Offsets
    /\ innerWidth \in Widths
    /\ pw_lastCallAge = PW_ThrottleDelay     \* lastCall = 0, Date.now() is large
    /\ pw_lastScrollY = (IF IsPW THEN scrollY ELSE 0)
    /\ pw_navTransform = ""
    /\ pw_navBackground = ""
    /\ pw_navBoxShadow = ""
    /\ ps_scrollTimeout = -1
    /\ ps_lastScrollY = 0
    /\ ps_navClasses = {}
    /\ navHeight \in NavHeights
    /\ ps_menuCreated = FALSE
    /\ ps_cloneActive = {}
    /\ ps_menuOpen = FALSE
    /\ sinceRaw = -1
    /\ rawDecreased = FALSE
    /\ ticked = FALSE
    /\ tickCur = (IF IsPW THEN scrollY ELSE 0)
    /\ tickPrev = tickCur
    /\ tickWidth = innerWidth
    /\ hiddenBefore = FALSE
    /\ scen = 0
    /\ lastMatched = "none"

\* The state of a feature that a specification leaves out.
IdleReveal ==
    /\ ioTargets = {}
    /\ ioQueue = <<>>
    /\ hasCounter = {}
    /\ pw_loaded = {}
    /\ pw_counterStarts = [e \in 1..NumTargets |-> 0]
    /\ ps_animated = {}
    /\ lateEntry = {}
    /\ revealCount = [e \in 1..NumTargets |-> 0]

\* A percentage as the fraction num/den (den > 0); kinds "NaN" and "Infinity"
\* are the doubles of those names, "unset" is a style that was never written.
Unset == [kind |-> "unset", num |-> 0, den |-> 1]

IdleProgress ==
    /\ scrollHeight = 600
    /\ innerHeight = 600
    /\ pg_frames = 0
    /\ pg_styleWidth = Unset
    /\ pg_samples = <<>>

IdleCounter ==
    /\ ct_dataTarget = 0
    /\ ct_textDigits = 0
    /\ ct_target = 0
    /\ ct_state = "idle"
    /\ ct_shown = FALSE
    /\ ct_text = 0
    /\ ct_elapsed = 0
    /\ ct_steps = 0
    /\ ct_suffix = FALSE
    /\ ct_suffixShown = FALSE

IdleTheme ==
    /\ th_hasToggle = FALSE
    /\ th_stored = "null"
    /\ th_prefersDark = FALSE
    /\ th_body = {}
    /\ th_init = FALSE
    /\ th_clicks = 0
    /\ th_preStored = "null"
    /\ th_prePrefersDark = FALSE

IdleWidgets == IdleProgress /\ IdleCounter /\ IdleTheme

\* init() as the list of its steps, in call order.
PS_InitSteps == <<"setupNavigation", "setupScrollEffects", "setupFormHandling",
                  "setupAnimations", "setupMobileMenu">>
PW_InitSteps == <<"cleanupHeroStyles", "setupSmoothScrolling", "setupScrollProgress",
                  "setupLazyLoading", "setupNavigation", "setupAnimations",
                  "setupFormHandling", "setupPerformanceOptimizations",
                  "setupAccessibility">>
Draft_InitSteps == <<"setupSmoothScrolling", "setupScrollProgress", "setupLazyLoading",
                     "setupNavigation", "setupMobileMenu", "setupAnimations",
                     "setupAccessibility", "updateCopyrightYear">>
InitSteps == IF script = "main_js.js" THEN PS_InitSteps
             ELSE IF script = "portfolio.js" THEN PW_InitSteps
             ELSE Draft_InitSteps

Range(seq) == {seq[i] : i \in DOMAIN seq}

\* The complete page, started without error.
IdleSetup ==
    /\ dom_nav = TRUE
    /\ dom_toggle = TRUE
    /\ dom_form = TRUE
    /\ dom_submit = "full"
    /\ dom_images = FALSE
    /\ hasIO = TRUE
    /\ nativeLazy = TRUE
    /\ envProcess = TRUE
    /\ st_booted = TRUE
    /\ st_setup = Range(InitSteps)
    /\ st_thrown = {}
    /\ st_ran = {}

IdleCoalesce ==
    /\ pw_hlLastCallAge = HighlightThrottleDelay    \* lastCall = 0
    /\ sinceChrome = -1
    /\ sinceScan = -1
    /\ gapChrome = -1
    /\ gapScan = -1

IdleForm ==
    /\ fm_name = ""
    /\ fm_email = ""
    /\ fm_message = ""
    /\ fm_errors = {}
    /\ fm_messages = <<>>
    /\ fm_ariaInvalid = {}
    /\ fm_sharedParent = FALSE
    /\ fm_disabled = FALSE
    /\ fm_buttonText = "Send"
    /\ fm_calls = <<>>
    /\ fm_runs = 0
    /\ fm_outcomes = <<>>

IdleParallax ==
    /\ px_enabled = FALSE
    /\ px_ticking = FALSE
    /\ px_pending = 0
    /\ px_transform = -1
    /\ px_scrolled = FALSE
    /\ px_coalesced = FALSE

IdleAux ==
    /\ toasts = <<>>
    /\ toastLog = <<>>
    /\ wroteDetached = FALSE
    /\ toastTransition = TRUE
    /\ ct_attached = TRUE
    /\ ps_scrollListeners = {"handleScroll"}
    /\ ps_destroyed = FALSE
    /\ pw_menuActive = FALSE
    /\ pw_ariaExpanded = "false"
    /\ bodyOverflow = ""

IdleToast == IdleParallax /\ IdleAux

IdleMore == IdleSetup /\ IdleCoalesce /\ IdleForm /\ IdleToast

InitScrollNav ==
    /\ InitPage
    /\ navHeight = 50
    /\ sections = HomeLayout
    /\ links = {"home", "about", "contact"}
    /\ pw_active = {}
    /\ ps_active = {}
    /\ ps_ariaExpanded = "false"

InitScroll == InitScrollNav /\ IdleReveal /\ IdleWidgets /\ IdleMore

\* The page at the top on a 768 px window, for the specifications that leave
\* scrolling out.
NavAtRest == InitScrollNav /\ scrollY = 0 /\ innerWidth = 768

\* The window fires a scroll event: the position has changed to y.
RawScroll(y) ==
    /\ y # scrollY
    /\ scrollY' = y
    /\ sinceRaw' = 0
    /\ rawDecreased' = (y < scrollY)
    /\ IF IsPW
       THEN /\ PW_throttledScrollHandler(y)
            /\ IF PW_ThrottlePasses THEN ObserveTick(y, PW_hidden) ELSE UNCHANGED tickObs
            /\ UNCHANGED <<ps_scrollTimeout, ps_lastScrollY, ps_navClasses, ps_active>>
       ELSE /\ PS_handleScroll
            /\ UNCHANGED <<pw_lastCallAge, pw_lastScrollY, pw_navTransform,
                           pw_navBackground, pw_navBoxShadow, tickObs>>
    /\ UNCHANGED notNav
    /\ UNCHANGED <<innerWidth, pageVars, pw_active, ps_menuCreated, ps_cloneActive,
                   ps_menuOpen, ps_ariaExpanded>>

\* The debounce timer of PortfolioSite is due.
PS_TimerFires ==
    /\ IsPS
    /\ ps_scrollTimeout = 0
    /\ ps_scrollTimeout' = -1
    /\ PS_scrollTick(scrollY)
    /\ ObserveTick(scrollY, PS_hidden)
    /\ UNCHANGED notNav
    /\ UNCHANGED <<scrollY, innerWidth, pageVars, rawObs, pw_lastCallAge, pw_lastScrollY,
                   pw_navTransform, pw_navBackground, pw_navBoxShadow, pw_active,
                   ps_menuCreated, ps_cloneActive, ps_menuOpen, ps_ariaExpanded>>

\* d ms pass; a due timer runs before more time passes.
Advance(d) ==
    /\ ps_scrollTimeout # 0
    /\ LET dd == IF ps_scrollTimeout > 0 THEN Min(d, ps_scrollTimeout) ELSE d
       IN /\ ps_scrollTimeout' = (IF ps_scrollTimeout > 0 THEN ps_scrollTimeout - dd
                                  ELSE ps_scrollTimeout)
          /\ pw_lastCallAge' = (IF IsPW THEN Min(pw_lastCallAge + dd, PW_ThrottleDelay)
                                ELSE pw_lastCallAge)
          /\ sinceRaw' = (IF sinceRaw = -1 THEN -1
                          ELSE Min(sinceRaw + dd, ScrollDebounceDelay))
    /\ UNCHANGED notNav
    /\ UNCHANGED <<scrollY, innerWidth, pageVars, linkVars, tickObs, rawDecreased,
                   pw_lastScrollY, pw_navTransform, pw_navBackground, pw_navBoxShadow,
                   ps_lastScrollY, ps_navClasses>>

Resize(w) ==
    /\ w # innerWidth
    /\ innerWidth' = w
    /\ UNCHANGED notNav
    /\ UNCHANGED <<scrollY, scrollVars, linkVars, pageVars, tickObs, rawObs>>

NextScroll ==
    \/ \E y \in Offsets : RawScroll(y)
    \/ PS_TimerFires
    \/ \E d \in TimeSteps : Advance(d)
    \/ \E w \in Widths : Resize(w)

SpecScroll == InitScroll /\ [][NextScroll]_vars


(***************************************************************************)
(* Properties of the scroll behaviour.                                     *)
(***************************************************************************)
NavHidden == IF IsPW THEN PW_hidden ELSE PS_hidden
NavScrolled == IF IsPW THEN PW_scrolled /\ pw_navBackground = "0.98" ELSE PS_scrolled
StoredLastOffset == IF IsPW THEN pw_lastScrollY ELSE ps_lastScrollY
IncreasePast200 == tickCur > tickPrev /\ tickCur > 200

\* Scroll events have stopped for at least the longest coalescing window and
\* no timer is pending.
Quiet == sinceRaw >= 16 /\ ps_scrollTimeout = -1

C2_TrailingEdge ==
    Quiet => /\ StoredLastOffset = scrollY
             /\ NavScrolled <=> scrollY > 100

\* C3: whenever the last raw scroll event lowered the scroll offset and has
\* been handled, the nav is shown.
C3_ScrollUpReveals ==
    (rawDecreased /\ ps_scrollTimeout = -1) => ~NavHidden

Layouts == { HomeLayout,
             << [id |-> "home", top |-> 0, height |-> 150],
                [id |-> "about", top |-> 200, height |-> 100] >>,
             << [id |-> "home", top |-> 0, height |-> 200],
                [id |-> "about", top |-> 200, height |-> 200] >>,
             << [id |-> "home", top |-> 0, height |-> 250],
                [id |-> "about", top |-> 150, height |-> 150],
                [id |-> "contact", top |-> 200, height |-> 200] >> }
LinkSets == { {"home", "about", "contact"}, {"home", "contact"} }

\* The mark the markup gives the links before any script runs: none, or one.
InitialMarks == {{}} \cup {{l} : l \in links}

InitHighlight ==
    /\ InitPage
    /\ IdleReveal
    /\ IdleWidgets
    /\ IdleMore
    /\ sections \in Layouts
    /\ links \in LinkSets
    /\ pw_active \in (IF IsPW THEN InitialMarks ELSE {{}})
    /\ ps_active \in (IF IsPS THEN InitialMarks ELSE {{}})
    /\ ps_ariaExpanded \in (IF IsPS THEN {"absent", "false"} ELSE {"false"})

\* The id of the last section, in document order, that the position is in.
LastMatching(scrollPosition) ==
    LET I == {i \in 1..Len(sections) : InSection(scrollPosition, sections[i])}
    IN IF I = {} THEN "none"
       ELSE sections[CHOOSE i \in I : \A j \in I : j <= i].id

ObserveMatch(scrollPosition) ==
    /\ lastMatched' = (IF LastMatching(scrollPosition) = "none" THEN lastMatched
                       ELSE LastMatching(scrollPosition))
    /\ UNCHANGED <<ticked, tickCur, tickPrev, tickWidth, hiddenBefore, scen>>

\* PortfolioWebsite: a scroll event at y that throttledHighlightSection lets through.
PW_HighlightTick(y) ==
    /\ IsPW
    /\ scrollY' = y
    /\ PW_highlightActiveSection(y)
    /\ ObserveMatch(y + ActivationLead)
    /\ UNCHANGED notNav
    /\ UNCHANGED <<innerWidth, scrollVars, pageVars, rawObs, ps_active, ps_menuCreated,
                   ps_cloneActive, ps_menuOpen, ps_ariaExpanded>>

\* PortfolioSite: the debounced callback runs with the page at y.
PS_ScrollTick(y) ==
    /\ IsPS
    /\ scrollY' = y
    /\ PS_scrollTick(y)
    /\ ObserveMatch(y + navHeight + LinkLeadExtra)
    /\ UNCHANGED notNav
    /\ UNCHANGED <<innerWidth, pageVars, rawObs, pw_lastCallAge, pw_lastScrollY,
                   pw_navTransform, pw_navBackground, pw_navBoxShadow, ps_scrollTimeout,
                   pw_active, ps_menuCreated, ps_cloneActive, ps_menuOpen, ps_ariaExpanded>>

PS_ToggleClick ==
    /\ IsPS
    /\ PS_toggleMobileMenu
    /\ UNCHANGED notNav
    /\ UNCHANGED <<scrollY, innerWidth, scrollVars, pageVars, tickObs, rawObs,
                   pw_active, ps_active>>

PS_CloseEvent ==
    /\ IsPS
    /\ PS_closeMobileMenu
    /\ UNCHANGED notNav
    /\ UNCHANGED <<scrollY, innerWidth, scrollVars, pageVars, tickObs, rawObs,
                   pw_active, ps_active>>

NextHighlight ==
    \/ \E y \in Offsets : PW_HighlightTick(y)
    \/ \E y \in Offsets : PS_ScrollTick(y)
    \/ PS_ToggleClick
    \/ PS_CloseEvent

SpecHighlight == InitHighlight /\ [][NextHighlight]_vars

\* The sections whose navigation link (the cached link, or its clone in the
\* mobile menu) carries class active.
ActiveLinks == IF IsPW THEN pw_active ELSE ps_active \cup ps_cloneActive

\* C4: at most one navigation link is marked active; once a tick has matched
\* a section, the marked link is the link of the last section matched by the
\* most recent matching tick.
C4_AtMostOneActive ==
    /\ Cardinality(ActiveLinks) <= 1
    /\ lastMatched # "none" => ActiveLinks = {lastMatched} \cap links


(***************************************************************************)
(* Viewport intersection: setupLazyLoading (PortfolioWebsite) and           *)
(* setupScrollEffects (PortfolioSite).                                      *)
(***************************************************************************)
Targets == 1..NumTargets
Entries == [target : Targets, isIntersecting : BOOLEAN]

\* A faulty variant: classList.toggle('loaded', entry.isIntersecting).
PW_EntryLoaded_Toggle(loaded, entry) ==
    IF entry.isIntersecting THEN loaded \cup {entry.target} ELSE loaded \ {entry.target}

\* The class list part of the callback: classList.add('loaded') on an
\* intersecting entry, nothing otherwise.
PW_EntryLoaded(loaded, entry) ==
    IF entry.isIntersecting THEN loaded \cup {entry.target} ELSE loaded

\* entries.forEach of the callback, on st = [loaded, targets, starts].
RECURSIVE PW_LazyCallback(_, _)
PW_LazyCallback(entries, st) ==
    IF entries = <<>> THEN st
    ELSE LET entry == Head(entries)
             hit == entry.isIntersecting
         IN PW_LazyCallback(Tail(entries),
               [loaded |-> PW_EntryLoaded(st.loaded, entry),
                targets |-> IF hit THEN st.targets \ {entry.target} ELSE st.targets,
                starts |-> IF hit /\ entry.target \in hasCounter
                           THEN [st.starts EXCEPT ![entry.target] = @ + 1]
                           ELSE st.starts])

\* entries.forEach of the callback, on st = [animated, targets].
RECURSIVE PS_AnimationCallback(_, _)
PS_AnimationCallback(entries, st) ==
    IF entries = <<>> THEN st
    ELSE LET entry == Head(entries)
             hit == entry.isIntersecting
         IN PS_AnimationCallback(Tail(entries),
               [animated |-> IF hit THEN st.animated \cup {entry.target} ELSE st.animated,
                targets |-> IF hit THEN st.targets \ {entry.target} ELSE st.targets])

\* A faulty variant: the reveal is undone while the page is scrolled past the
\* hide threshold.
Revealed_UntilScrolled ==
    IF scrollY > HideThreshold THEN {} ELSE IF IsPW THEN pw_loaded ELSE ps_animated

Revealed == IF IsPW THEN pw_loaded ELSE ps_animated

\* Observer: the elements that get a non-intersecting entry after their reveal.
RECURSIVE LateEntries(_, _)
LateEntries(entries, revealed) ==
    IF entries = <<>> THEN {}
    ELSE LET entry == Head(entries)
         IN (IF ~entry.isIntersecting /\ entry.target \in revealed
             THEN {entry.target} ELSE {})
            \cup LateEntries(Tail(entries),
                             IF IsPW THEN PW_EntryLoaded(revealed, entry)
                             ELSE IF entry.isIntersecting
                                  THEN revealed \cup {entry.target}
                                  ELSE revealed)

\* The entries of the batch that take the isIntersecting branch for element e.
RECURSIVE Hits(_, _)
Hits(entries, e) ==
    IF entries = <<>> THEN 0
    ELSE (IF Head(entries).isIntersecting /\ Head(entries).target = e THEN 1 ELSE 0)
         + Hits(Tail(entries), e)

\* The browser queues an entry for an observed element whose intersection changed.
IO_Notify(e, b) ==
    /\ e \in ioTargets
    /\ Len(ioQueue) < MaxEntries
    /\ ioQueue' = Append(ioQueue, [target |-> e, isIntersecting |-> b])
    /\ UNCHANGED <<ioTargets, hasCounter, pw_loaded, pw_counterStarts, ps_animated,
                   lateEntry, revealCount>>
    /\ UNCHANGED <<script, notReveal>>

\* The browser runs the observer's callback on the queued entries.
IO_Deliver ==
    /\ ioQueue # <<>>
    /\ ioQueue' = <<>>
    /\ lateEntry' = lateEntry \cup LateEntries(ioQueue, Revealed)
    /\ revealCount' = [e \in Targets |-> revealCount[e] + Hits(ioQueue, e)]
    /\ IF IsPW
       THEN LET st == PW_LazyCallback(ioQueue, [loaded |-> pw_loaded,
                                               targets |-> ioTargets,
                                               starts |-> pw_counterStarts])
            IN /\ pw_loaded' = st.loaded
               /\ ioTargets' = st.targets
               /\ pw_counterStarts' = st.starts
               /\ UNCHANGED ps_animated
       ELSE LET st == PS_AnimationCallback(ioQueue, [animated |-> ps_animated,
                                                    targets |-> ioTargets])
            IN /\ ps_animated' = st.animated
               /\ ioTargets' = st.targets
               /\ UNCHANGED <<pw_loaded, pw_counterStarts>>
    /\ UNCHANGED hasCounter
    /\ UNCHANGED <<script, notReveal>>

InitReveal ==
    /\ NavAtRest
    /\ IdleWidgets
    /\ IdleMore
    /\ ioTargets = Targets
    /\ ioQueue = <<>>
    /\ hasCounter \in (IF IsPW THEN SUBSET Targets ELSE {{}})
    /\ pw_loaded = {}
    /\ pw_counterStarts = [e \in Targets |-> 0]
    /\ ps_animated = {}
    /\ lateEntry = {}
    /\ revealCount = [e \in 1..NumTargets |-> 0]

NextReveal ==
    \/ \E e \in Targets, b \in BOOLEAN : IO_Notify(e, b)
    \/ IO_Deliver

SpecReveal == InitReveal /\ [][NextReveal]_vars

\* C5: an element that is revealed stays revealed over every step, and an
\* element marked while a callback runs is still revealed when the callback
\* returns, whatever entries (isIntersecting false included) follow its mark.
C5_RevealedStaysRevealed ==
    [][Revealed \subseteq Revealed' /\ lateEntry' \subseteq Revealed']_vars

\* C5 witness: a revealed element has since been given an entry with
\* isIntersecting false, and is still revealed.
C5_Witness == lateEntry # {} /\ lateEntry \subseteq Revealed

(***************************************************************************)
(* Scroll progress indicator (setupScrollProgress): the scroll listener    *)
(* requests an animation frame, whose callback computes the width from     *)
(* the window as it is when the frame runs.  Doubles are modelled by exact *)
(* fractions, with NaN and Infinity as the values of 0/0 and y/0.          *)
(***************************************************************************)
ScrollHeights == {600, 700, 900}
InnerHeights == {600, 615}          \* 615: a horizontal scrollbar takes part of the window
ProgressOffsets == {0, 50, 85, 100, 285, 300}

ScrollableHeight == scrollHeight - innerHeight

\* (window.scrollY / (scrollHeight - window.innerHeight)) * 100
PW_scrollPercent(y, D) ==
    IF D = 0
    THEN (IF y = 0 THEN [kind |-> "NaN", num |-> 0, den |-> 1]
          ELSE [kind |-> "Infinity", num |-> 1, den |-> 1])
    ELSE IF D > 0 THEN [kind |-> "num", num |-> y * 100, den |-> D]
    ELSE [kind |-> "num", num |-> (0 - y) * 100, den |-> 0 - D]

\* Math.min(scrollPercent, 100)
PW_minPercent(p) ==
    IF p.kind = "NaN" THEN p
    ELSE IF p.kind = "Infinity" THEN [kind |-> "num", num |-> FullPercent, den |-> 1]
    ELSE IF p.num > FullPercent * p.den THEN [kind |-> "num", num |-> FullPercent, den |-> 1]
    ELSE p

\* progressBar.style.width = value + '%': a declaration that is not a
\* non-negative percentage ('NaN%') is dropped and the style keeps its value.
PW_setWidth(old, value) ==
    IF value.kind = "num" /\ value.num >= 0 THEN value ELSE old

\* The animation-frame callback.
PW_progressFrame ==
    LET value == PW_minPercent(PW_scrollPercent(scrollY, ScrollableHeight))
        sample == [y |-> scrollY, D |-> ScrollableHeight, value |-> value]
    IN /\ pg_styleWidth' = PW_setWidth(pg_styleWidth, value)
       /\ pg_samples' = IF Len(pg_samples) = 2 THEN <<pg_samples[2], sample>>
                        ELSE Append(pg_samples, sample)

\* The window scrolls to y and fires a scroll event.
Progress_Scroll(y) ==
    /\ y # scrollY
    /\ y <= Max(0, ScrollableHeight)
    /\ pg_frames < MaxFrames
    /\ scrollY' = y
    /\ pg_frames' = pg_frames + 1
    /\ UNCHANGED <<scrollHeight, innerHeight, pg_styleWidth, pg_samples>>
    /\ UNCHANGED notProgress

\* The frame runs every callback requested since the last one; they read the
\* same window and write the same width.
Progress_Frame ==
    /\ pg_frames > 0
    /\ pg_frames' = 0
    /\ PW_progressFrame
    /\ UNCHANGED <<scrollY, scrollHeight, innerHeight>>
    /\ UNCHANGED notProgress

\* The document or the window changes height (content loads, the window is
\* resized); the browser brings scrollY back into range, with a scroll event
\* when that moves it.
Progress_Relayout(sh, ih) ==
    /\ <<sh, ih>> # <<scrollHeight, innerHeight>>
    /\ LET y == Min(scrollY, Max(0, sh - ih))
       IN /\ y # scrollY => pg_frames < MaxFrames
          /\ scrollY' = y
          /\ pg_frames' = IF y # scrollY THEN pg_frames + 1 ELSE pg_frames
    /\ scrollHeight' = sh
    /\ innerHeight' = ih
    /\ pg_samples' = <<>>
    /\ UNCHANGED pg_styleWidth
    /\ UNCHANGED notProgress

InitProgress ==
    /\ NavAtRest
    /\ IsPW
    /\ IdleReveal
    /\ IdleCounter
    /\ IdleTheme
    /\ IdleMore
    /\ scrollHeight \in ScrollHeights
    /\ innerHeight \in InnerHeights
    /\ pg_frames = 0
    /\ pg_styleWidth = Unset
    /\ pg_samples = <<>>

NextProgress ==
    \/ \E y \in ProgressOffsets : Progress_Scroll(y)
    \/ Progress_Frame
    \/ \E sh \in ScrollHeights, ih \in InnerHeights : Progress_Relayout(sh, ih)

SpecProgress == InitProgress /\ [][NextProgress]_vars

InUnit(v) == v.kind = "num" /\ 0 <= v.num /\ v.num <= FullPercent * v.den
Leq(v, w) == v.num * w.den <= w.num * v.den

\* C6: at fixed heights every computed fill lies between 0% and 100%, and of
\* two computed fills the one for the smaller offset is not the larger.
C6_ProgressMonotoneInUnit ==
    \A i, j \in DOMAIN pg_samples :
        /\ InUnit(pg_samples[i].value)
        /\ (InUnit(pg_samples[j].value) /\ pg_samples[i].y <= pg_samples[j].y)
              => Leq(pg_samples[i].value, pg_samples[j].value)

\* C7: a callback that finds a scrollable height <= 0 computes the fill 0,
\* never NaN, an infinity or a negative width.
C7_NoScrollableHeightGivesZero ==
    \A i \in DOMAIN pg_samples :
        pg_samples[i].D <= 0 =>
            /\ pg_samples[i].value.kind = "num"
            /\ pg_samples[i].value.num = 0

(***************************************************************************)
(* Counter animation (animateCounter), started by the lazy-loading         *)
(* callback.  portfolio.js eases over the time elapsed; part_000 adds a    *)
(* fixed increment per frame.  Doubles are modelled by exact fractions.    *)
(***************************************************************************)
\* What parseInt gives for a string that does not start with a number.
NaN == 0 - 1

DataTargets == {NaN, 0, 3, 1000}
TextDigits == {NaN, 7}
\* currentTime - start of a frame, in ms.  currentTime is the time the frame
\* began, start the performance.now() read when animateCounter ran: a frame
\* that began before that reading was taken gives a negative difference.
FrameElapsed == {0 - 20, 0, 20, 500, 1000, 1980, 2000, 2020}

\* parseInt(element.dataset.target) || parseInt(element.textContent.replace(...))
PW_parseTarget(data, text) == IF data # NaN /\ data # 0 THEN data ELSE text

\* Math.min(elapsed / duration, 1), as a numerator over CounterDuration
PW_progress(elapsed) == Min(elapsed, CounterDuration)

\* easeOutQuad(x) = 1 - (1 - x) * (1 - x), as a numerator over CounterDuration^2
PW_easeOutQuad(x) ==
    CounterDuration * CounterDuration - (CounterDuration - x) * (CounterDuration - x)

RECURSIVE GCD(_, _)
GCD(a, b) == IF b = 0 THEN a ELSE GCD(b, a % b)

\* Math.floor(startValue + (target - startValue) * easedProgress), the eased
\* fraction n/m taken in lowest terms
PW_current(target, elapsed) ==
    LET n == PW_easeOutQuad(PW_progress(elapsed))
        m == CounterDuration * CounterDuration
        g == GCD(m, IF n < 0 THEN 0 - n ELSE n)
    IN IF target = NaN THEN NaN ELSE (target * (n \div g)) \div (m \div g)

\* animate(currentTime)
PW_animate(elapsed) ==
    /\ ct_text' = PW_current(ct_target, elapsed)
    /\ ct_suffixShown' = ct_suffix
    /\ ct_shown' = TRUE
    /\ ct_state' = IF PW_progress(elapsed) < CounterDuration THEN "running" ELSE "done"

\* duration / 16: the additions of increment = target / (duration / 16) that
\* reach the target
DraftSteps == CounterDuration \div DraftFrameInterval

\* updateCounter(), making addition number k: current = k * increment
Draft_updateCounter(k) ==
    /\ ct_steps' = k
    /\ ct_shown' = TRUE
    /\ ct_suffixShown' = FALSE
    /\ IF ct_target' # NaN /\ k * ct_target' < DraftSteps * ct_target'
       THEN /\ ct_text' = (k * ct_target') \div DraftSteps
            /\ ct_state' = "running"
       ELSE /\ ct_text' = ct_target'
            /\ ct_state' = "done"

\* animateCounter(counter), called by the lazy-loading callback
Counter_Start ==
    /\ ct_state = "idle"
    /\ IF script = "portfolio.js"
       THEN /\ ct_target' = PW_parseTarget(ct_dataTarget, ct_textDigits)
            /\ ct_state' = "running"
            /\ UNCHANGED <<ct_shown, ct_text, ct_steps, ct_suffixShown>>
       ELSE /\ ct_target' = ct_dataTarget
            /\ Draft_updateCounter(1)
    /\ UNCHANGED <<ct_dataTarget, ct_textDigits, ct_elapsed, ct_suffix>>
    /\ UNCHANGED notCounter

\* portfolio.js: the requested frame runs animate
PW_CounterFrame(elapsed) ==
    /\ script = "portfolio.js"
    /\ ct_state = "running"
    /\ ct_shown => elapsed > ct_elapsed
    /\ ct_elapsed' = elapsed
    /\ PW_animate(elapsed)
    /\ UNCHANGED <<ct_dataTarget, ct_textDigits, ct_target, ct_steps, ct_suffix>>
    /\ UNCHANGED notCounter

\* part_000: the requested frame runs updateCounter
Draft_CounterFrame ==
    /\ script = "part_000"
    /\ ct_state = "running"
    /\ ct_target' = ct_target
    /\ Draft_updateCounter(ct_steps + 1)
    /\ UNCHANGED <<ct_dataTarget, ct_textDigits, ct_elapsed, ct_suffix>>
    /\ UNCHANGED notCounter

InitCounter ==
    /\ NavAtRest
    /\ IsPW
    /\ IdleReveal
    /\ IdleProgress
    /\ IdleTheme
    /\ IdleMore
    /\ ct_dataTarget \in DataTargets
    /\ ct_textDigits \in TextDigits
    /\ ct_target = 0
    /\ ct_state = "idle"
    /\ ct_shown = FALSE
    /\ ct_text = ct_textDigits
    /\ ct_elapsed = 0
    /\ ct_steps = 0
    /\ ct_suffix \in BOOLEAN
    /\ ct_suffixShown = FALSE

\* Other code of the page takes the counter element out of the document
\* while its animation runs.
Counter_Detach ==
    /\ ct_state = "running"
    /\ ct_attached
    /\ ct_attached' = FALSE
    /\ UNCHANGED <<pageVars, navVars, revealVars, progressVars, counterVars, themeVars,
                   setupVars, coalesceVars, formVars, toastVars, destroyVars,
                   menuVars, parallaxVars>>

NextCounter ==
    \/ Counter_Start
    \/ Counter_Detach
    \/ \E elapsed \in FrameElapsed : PW_CounterFrame(elapsed)
    \/ Draft_CounterFrame

SpecCounter == InitCounter /\ [][NextCounter]_vars

\* C8: while a counter runs to a positive target every number it has written
\* lies between 0 and the target, and the number it ends on is the target.
C8_CounterWithinTarget ==
    (ct_target > 0 /\ ct_shown) =>
        /\ 0 <= ct_text
        /\ ct_text <= ct_target
        /\ ct_state = "done" => ct_text = ct_target

(***************************************************************************)
(* Theme toggle (initDarkMode): src/js/dark-mode.js, and the copy that     *)
(* ends portfolio.js, which a page loading portfolio.js runs instead.      *)
(***************************************************************************)
StoredThemes == {"null", "light", "dark"}
ThemeClasses == {"light-mode", "dark-mode"}

IsDarkModeJs == script # "portfolio.js"

\* A faulty variant: the default is light whatever the system prefers.
Theme_savedTheme_IgnoreSystem(stored, prefersDark) ==
    IF stored # "null" THEN stored ELSE "light"

\* localStorage.getItem('theme') || (prefersDark ? 'dark' : 'light')
Theme_savedTheme(stored, prefersDark) ==
    IF stored # "null" THEN stored ELSE IF prefersDark THEN "dark" ELSE "light"

ThemeClass(theme) == IF theme = "dark" THEN "dark-mode" ELSE "light-mode"
OtherTheme(theme) == IF theme = "dark" THEN "light" ELSE "dark"

\* classList.replace(old, new)
ClassListReplace(classes, old, new) ==
    IF old \in classes THEN (classes \ {old}) \cup {new} ELSE classes

\* applyTheme(theme) of portfolio.js, with updateNavigationStyles
applyTheme(theme) ==
    /\ th_body' = (th_body \ ThemeClasses) \cup {ThemeClass(theme)}
    /\ pw_navBackground' = "0.95"

\* fixNavigationStyles() of dark-mode.js
fixNavigationStyles == pw_navBackground' = "0.95"

\* initDarkMode()
Theme_Init ==
    /\ ~th_init
    /\ th_init' = TRUE
    /\ IF ~th_hasToggle
       THEN UNCHANGED <<th_body, pw_navBackground>>
       ELSE LET savedTheme == Theme_savedTheme(th_stored, th_prefersDark)
            IN IF IsDarkModeJs
               THEN /\ th_body' = th_body \cup {ThemeClass(savedTheme)}
                    /\ fixNavigationStyles
               ELSE applyTheme(savedTheme)
    /\ UNCHANGED <<th_hasToggle, th_stored, th_prefersDark, th_clicks, th_preStored,
                   th_prePrefersDark>>
    /\ UNCHANGED notTheme

\* The click listener of the toggle.
Theme_Click ==
    /\ th_init
    /\ th_hasToggle
    /\ th_clicks < MaxClicks
    /\ th_clicks' = th_clicks + 1
    /\ th_preStored' = th_stored
    /\ th_prePrefersDark' = th_prefersDark
    /\ LET currentTheme == IF "dark-mode" \in th_body THEN "dark" ELSE "light"
           newTheme == OtherTheme(currentTheme)
       IN /\ IF IsDarkModeJs
             THEN /\ th_body' = ClassListReplace(th_body, ThemeClass(currentTheme),
                                                 ThemeClass(newTheme))
                  /\ fixNavigationStyles
             ELSE applyTheme(newTheme)
          /\ th_stored' = newTheme
    /\ UNCHANGED <<th_hasToggle, th_prefersDark, th_init>>
    /\ UNCHANGED notTheme

\* A faulty variant: the change listener follows the system whatever is stored.
Theme_noneStored_Always(stored) == TRUE

\* !localStorage.getItem('theme')
Theme_noneStored(stored) == stored = "null"

\* The system preference changes to dark (matches) or to light; the change
\* listener exists once initDarkMode has registered it.
Theme_SystemChange(matches) ==
    /\ matches # th_prefersDark
    /\ th_prefersDark' = matches
    /\ IF th_init /\ th_hasToggle /\ Theme_noneStored(th_stored)
       THEN LET theme == IF matches THEN "dark" ELSE "light"
            IN IF IsDarkModeJs
               THEN /\ th_body' = ClassListReplace(th_body, ThemeClass(OtherTheme(theme)),
                                                   ThemeClass(theme))
                    /\ UNCHANGED pw_navBackground
               ELSE applyTheme(theme)
       ELSE UNCHANGED <<th_body, pw_navBackground>>
    /\ UNCHANGED <<th_hasToggle, th_stored, th_init, th_clicks, th_preStored,
                   th_prePrefersDark>>
    /\ UNCHANGED notTheme

InitTheme ==
    /\ NavAtRest
    /\ IdleReveal
    /\ IdleProgress
    /\ IdleCounter
    /\ IdleMore
    /\ th_hasToggle \in BOOLEAN
    /\ th_stored \in StoredThemes
    /\ th_prefersDark \in BOOLEAN
    /\ th_body \in SUBSET ThemeClasses
    /\ th_init = FALSE
    /\ th_clicks = 0
    /\ th_preStored = "null"
    /\ th_prePrefersDark = FALSE

NextTheme ==
    \/ Theme_Init
    \/ Theme_Click
    \/ \E matches \in BOOLEAN : Theme_SystemChange(matches)

SpecTheme == InitTheme /\ [][NextTheme]_vars

\* C10: after one click on the toggle, made with nothing stored and the
\* system preference dark, the body has light-mode and not dark-mode, and
\* storage holds 'light'.
C10_FirstClickFromSystemDark ==
    (th_clicks = 1 /\ th_preStored = "null" /\ th_prePrefersDark) =>
        /\ "light-mode" \in th_body
        /\ "dark-mode" \notin th_body
        /\ th_stored = "light"

\* C10 witness: that click has been made and the page is light.
C10_Witness ==
    /\ th_clicks = 1
    /\ th_preStored = "null"
    /\ th_prePrefersDark
    /\ th_body = {"light-mode"}
    /\ th_stored = "light"

(***************************************************************************)
(* The 'theme' key of localStorage.                                        *)
(***************************************************************************)
\* The theme the body shows: its class, and not the class of the other.
Applied(theme) ==
    /\ ThemeClass(theme) \in th_body
    /\ ThemeClass(OtherTheme(theme)) \notin th_body

\* C11: the step of initDarkMode leaves applied the stored theme, or the
\* system's when none is stored; a step that changes the key leaves 'light'
\* or 'dark' in it; the step of a click leaves the stored theme applied.
C11_ThemeReadAndWritten ==
    [][/\ (~th_init /\ th_init' /\ th_hasToggle)
            => Applied(Theme_savedTheme(th_stored, th_prefersDark))'
       /\ th_stored' # th_stored => th_stored' \in {"light", "dark"}
       /\ th_clicks' # th_clicks => Applied(th_stored)']_vars

(***************************************************************************)
(* Start of the page script on a page that lacks some of the elements or   *)
(* capabilities it refers to: the DOMContentLoaded listener, init(), and   *)
(* the handlers init() registered.  A handler is followed to the point     *)
(* where it raises or returns.                                             *)
(***************************************************************************)
SubmitButtons == {"none", "bare", "full"}
\* href of the clicked link: a section of the page, or an id the page lacks
Hrefs == {"#present", "#absent"}
Handlers == {"scroll", "navClick", "menuClose", "submit"}

\* The step raises: new IntersectionObserver where the window has none.
StepThrows(step) ==
    \/ IsPS /\ step = "setupScrollEffects" /\ ~hasIO
    \/ /\ script = "portfolio.js"
       /\ step = "setupPerformanceOptimizations"
       /\ dom_images /\ ~nativeLazy /\ ~hasIO

\* init(): the steps in order, up to the first that raises.
RECURSIVE RunSteps(_)
RunSteps(steps) ==
    IF steps = <<>> THEN [done |-> {}, thrown |-> {}]
    ELSE IF StepThrows(Head(steps)) THEN [done |-> {}, thrown |-> {Head(steps)}]
    ELSE LET rest == RunSteps(Tail(steps))
         IN [done |-> rest.done \cup {Head(steps)}, thrown |-> rest.thrown]

\* The listener the step registered is on the page.
Listens(handler) ==
    CASE handler = "scroll" ->
           "setupNavigation" \in st_setup /\ (IsPW => dom_nav)
      [] handler = "navClick" ->
           IF IsPS THEN "setupNavigation" \in st_setup
           ELSE "setupSmoothScrolling" \in st_setup
      [] handler = "menuClose" ->
           IF script = "portfolio.js" THEN "setupAccessibility" \in st_setup
           ELSE "setupMobileMenu" \in st_setup /\ dom_toggle
      [] handler = "submit" ->
           "setupFormHandling" \in st_setup /\ dom_form

\* The handler raises: this.nav.offsetHeight, this.nav.querySelector on a
\* null nav; submitButton.querySelector or buttonText.hidden on null.
HandlerThrows(handler, href, valid) ==
    CASE handler = "scroll" -> IsPS /\ ~dom_nav
      [] handler = "navClick" -> IsPS /\ href = "#present" /\ ~dom_nav
      [] handler = "menuClose" -> IsPS /\ ~dom_nav
      [] handler = "submit" -> IsPS /\ valid /\ dom_submit # "full"

\* The DOMContentLoaded listener: new PortfolioSite() / new PortfolioWebsite(),
\* then in main_js.js the test of process?.env?.NODE_ENV.
Page_Boot ==
    /\ ~st_booted
    /\ st_booted' = TRUE
    /\ LET run == RunSteps(InitSteps)
       IN /\ st_setup' = run.done
          /\ st_thrown' = run.thrown \cup
                (IF IsPS /\ run.thrown = {} /\ ~envProcess
                 THEN {"DOMContentLoaded"} ELSE {})
    /\ UNCHANGED <<dom_nav, dom_toggle, dom_form, dom_submit, dom_images, hasIO,
                   nativeLazy, envProcess, st_ran>>
    /\ UNCHANGED notSetup

\* A registered handler runs: it raises, or runs to its end.
Page_Handle(handler, href, valid) ==
    /\ Listens(handler)
    /\ IF HandlerThrows(handler, href, valid)
       THEN st_thrown' = st_thrown \cup {handler} /\ UNCHANGED st_ran
       ELSE st_ran' = st_ran \cup {handler} /\ UNCHANGED st_thrown
    /\ UNCHANGED <<dom_nav, dom_toggle, dom_form, dom_submit, dom_images, hasIO,
                   nativeLazy, envProcess, st_booted, st_setup>>
    /\ UNCHANGED notSetup

\* A scroll tick (the throttled handlers, the debounce timer).
Page_ScrollTick ==
    /\ st_booted
    /\ Page_Handle("scroll", "#absent", FALSE)
\* A click on a link of the page.
Page_NavClick(href) ==
    /\ st_booted
    /\ Page_Handle("navClick", href, FALSE)
\* The Escape key.
Page_MenuClose ==
    /\ st_booted
    /\ Page_Handle("menuClose", "#absent", FALSE)
\* A submit event, with field values that pass validateForm or not.
Page_Submit(valid) ==
    /\ st_booted
    /\ Page_Handle("submit", "#absent", valid)

InitSetup ==
    /\ NavAtRest
    /\ IdleReveal
    /\ IdleWidgets
    /\ IdleCoalesce
    /\ IdleForm
    /\ IdleToast
    /\ dom_nav \in BOOLEAN
    /\ dom_toggle \in BOOLEAN
    /\ dom_form \in BOOLEAN
    /\ dom_submit \in SubmitButtons
    /\ dom_images \in BOOLEAN
    /\ hasIO \in BOOLEAN
    /\ nativeLazy \in BOOLEAN
    /\ envProcess \in BOOLEAN
    /\ st_booted = FALSE
    /\ st_setup = {}
    /\ st_thrown = {}
    /\ st_ran = {}

NextSetup ==
    \/ Page_Boot
    \/ Page_ScrollTick
    \/ \E href \in Hrefs : Page_NavClick(href)
    \/ Page_MenuClose
    \/ \E valid \in BOOLEAN : Page_Submit(valid)

SpecSetup == InitSetup /\ [][NextSetup]_vars

\* C12: on a page that has the IntersectionObserver capability, whatever
\* elements it lacks, no step of init() and no handler raises an error, and
\* every step of init() has run.
C12_AbsentTargetIsSilent ==
    (st_booted /\ hasIO) =>
        /\ st_thrown \cap (Range(InitSteps) \cup Handlers) = {}
        /\ st_setup = Range(InitSteps)

\* C13: on a page whose window has no IntersectionObserver, no step of init()
\* raises an error and every step of init(), those after the intersection
\* step included, has run.
C13_NoObserverStillInitializes ==
    (st_booted /\ ~hasIO) =>
        /\ st_thrown \cap Range(InitSteps) = {}
        /\ Range(InitSteps) \subseteq st_setup

(***************************************************************************)
(* Coalescing windows: the two throttled listeners of PortfolioWebsite     *)
(* (nav chrome, section scan) and the one debounced tick of PortfolioSite  *)
(* (both effects), under raw scroll events and passing time.               *)
(***************************************************************************)
CoalesceOffsets == {0, 250}
CoalesceSteps == {8, 50}

\* throttledHighlightSection: throttle(highlightActiveSection, 100)
PW_HighlightThrottlePasses == pw_hlLastCallAge >= HighlightThrottleDelay

PW_throttledHighlightSection(currentScrollY) ==
    IF PW_HighlightThrottlePasses
    THEN pw_hlLastCallAge' = 0 /\ PW_highlightActiveSection(currentScrollY)
    ELSE UNCHANGED <<pw_hlLastCallAge, pw_active>>

\* An effect is applied now: the gap to its previous application.
Applied_Chrome == gapChrome' = sinceChrome /\ sinceChrome' = 0
Applied_Scan == gapScan' = sinceScan /\ sinceScan' = 0

\* The window fires a scroll event: both listeners of PortfolioWebsite run,
\* or the one of PortfolioSite.
Coalesce_Scroll(y) ==
    /\ y # scrollY
    /\ scrollY' = y
    /\ IF IsPW
       THEN /\ PW_throttledScrollHandler(y)
            /\ PW_throttledHighlightSection(y)
            /\ IF PW_ThrottlePasses THEN Applied_Chrome
               ELSE UNCHANGED <<gapChrome, sinceChrome>>
            /\ IF PW_HighlightThrottlePasses THEN Applied_Scan
               ELSE UNCHANGED <<gapScan, sinceScan>>
            /\ UNCHANGED <<ps_scrollTimeout, ps_lastScrollY, ps_navClasses, ps_active>>
       ELSE /\ PS_handleScroll
            /\ UNCHANGED <<pw_lastCallAge, pw_lastScrollY, pw_navTransform,
                           pw_navBackground, pw_navBoxShadow, pw_active,
                           pw_hlLastCallAge, sinceChrome, sinceScan, gapChrome, gapScan>>
    /\ UNCHANGED <<innerWidth, pageVars, ps_menuCreated, ps_cloneActive, ps_menuOpen,
                   ps_ariaExpanded, tickObs, rawObs>>
    /\ UNCHANGED <<revealVars, progressVars, counterVars, themeVars, setupVars, formVars,
                   toastVars, detachVars, destroyVars,
                   menuVars, parallaxVars>>

\* The debounce timer of PortfolioSite is due: its callback applies both effects.
Coalesce_TimerFires ==
    /\ IsPS
    /\ ps_scrollTimeout = 0
    /\ ps_scrollTimeout' = -1
    /\ PS_scrollTick(scrollY)
    /\ Applied_Chrome
    /\ Applied_Scan
    /\ UNCHANGED <<scrollY, innerWidth, pageVars, pw_lastCallAge, pw_lastScrollY,
                   pw_navTransform, pw_navBackground, pw_navBoxShadow, pw_active,
                   ps_menuCreated, ps_cloneActive, ps_menuOpen, ps_ariaExpanded,
                   pw_hlLastCallAge, tickObs, rawObs>>
    /\ UNCHANGED <<revealVars, progressVars, counterVars, themeVars, setupVars, formVars,
                   toastVars, detachVars, destroyVars,
                   menuVars, parallaxVars>>

Aged(age, d, cap) == IF age = -1 THEN -1 ELSE Min(age + d, cap)

\* d ms pass; a due timer runs before more time passes.
Coalesce_Advance(d) ==
    /\ ps_scrollTimeout # 0
    /\ LET dd == IF ps_scrollTimeout > 0 THEN Min(d, ps_scrollTimeout) ELSE d
       IN /\ ps_scrollTimeout' = (IF ps_scrollTimeout > 0 THEN ps_scrollTimeout - dd
                                  ELSE ps_scrollTimeout)
          /\ pw_lastCallAge' = (IF IsPW THEN Min(pw_lastCallAge + dd, PW_ThrottleDelay)
                                ELSE pw_lastCallAge)
          /\ pw_hlLastCallAge' = (IF IsPW
                                  THEN Min(pw_hlLastCallAge + dd, HighlightThrottleDelay)
                                  ELSE pw_hlLastCallAge)
          /\ sinceChrome' = Aged(sinceChrome, dd, HighlightThrottleDelay)
          /\ sinceScan' = Aged(sinceScan, dd, HighlightThrottleDelay)
    /\ UNCHANGED <<gapChrome, gapScan>>
    /\ UNCHANGED <<scrollY, innerWidth, pageVars, linkVars, tickObs, rawObs,
                   pw_lastScrollY, pw_navTransform, pw_navBackground, pw_navBoxShadow,
                   ps_lastScrollY, ps_navClasses>>
    /\ UNCHANGED <<revealVars, progressVars, counterVars, themeVars, setupVars, formVars,
                   toastVars, detachVars, destroyVars,
                   menuVars, parallaxVars>>

InitCoalesce ==
    /\ NavAtRest
    /\ IdleReveal
    /\ IdleWidgets
    /\ IdleSetup
    /\ IdleCoalesce
    /\ IdleForm
    /\ IdleToast

NextCoalesce ==
    \/ \E y \in CoalesceOffsets : Coalesce_Scroll(y)
    \/ Coalesce_TimerFires
    \/ \E d \in CoalesceSteps : Coalesce_Advance(d)

SpecCoalesce == InitCoalesce /\ [][NextCoalesce]_vars

ChromeWindow == IF IsPS THEN ScrollDebounceDelay ELSE PW_ThrottleDelay

\* C14: two updates of the nav chrome are at least one refresh window (10 or
\* 16 ms) apart, and two section scans at least 100 ms apart.
C14_OneUpdatePerWindow ==
    /\ gapChrome # -1 => gapChrome >= ChromeWindow
    /\ gapScan # -1 => gapScan >= HighlightThrottleDelay

\* ------------------------------------------------------------------------
\* Contact form: validation on submit, the simulated submission, the toast
\* that reports its outcome (main_js.js and portfolio.js; the draft has no
\* form handling).
\* ------------------------------------------------------------------------

HasForm == script \in {"main_js.js", "portfolio.js"}

FieldNames == {"name", "email", "message"}
NameValues == {"", "A", "Al"}
EmailValues == {"", "a@b", "a@b.co"}
MessageValues == {"", "hi", "hello world"}

\* Values with white space around them, for the validators.
PaddedValues == {"  ", " A ", " a@b.co "}

\* value.trim()
Trim(v) ==
    CASE v = "  " -> ""
      [] v = " A " -> "A"
      [] v = " a@b.co " -> "a@b.co"
      [] OTHER -> v

\* value.trim().length
TrimmedLength(v) ==
    LET t == Trim(v)
    IN CASE t = "" -> 0
         [] t = "A" -> 1
         [] t = "Al" -> 2
         [] t = "hi" -> 2
         [] t = "hello world" -> 11
         [] t = "a@b" -> 3
         [] t = "a@b.co" -> 6

\* main_js.js: /^[^\s@]+@[^\s@]+\.[^\s@]+$/ asks for a dot after the @.
PS_emailRegexTest(v) == v = "a@b.co"

\* portfolio.js: the dotted suffixes of the domain are optional.
PW_emailRegexTest(v) == v \in {"a@b", "a@b.co"}

\* Fields that validateForm flags for the submitted data.
PS_validateForm(name, email, message) ==
    (IF name = "" \/ TrimmedLength(name) < 2 THEN {"name"} ELSE {})
    \cup (IF email = "" \/ ~PS_emailRegexTest(Trim(email)) THEN {"email"} ELSE {})
    \cup (IF message = "" \/ TrimmedLength(message) < 10 THEN {"message"} ELSE {})

PW_validateForm(name, email, message) ==
    (IF ~PW_emailRegexTest(email) THEN {"email"} ELSE {})
    \cup (IF TrimmedLength(name) < 2 THEN {"name"} ELSE {})
    \cup (IF TrimmedLength(message) < 10 THEN {"message"} ELSE {})

validateForm(name, email, message) ==
    IF IsPW THEN PW_validateForm(name, email, message)
    ELSE PS_validateForm(name, email, message)

\* The outcomes the simulated submission can have: main_js.js rejects when
\* Math.random() > 0.9, the promise of portfolio.js only ever resolves.
Outcomes == IF IsPW THEN {"resolve"} ELSE {"resolve", "reject"}

ToastTypes == {"success", "error"}

NewToast(type) ==
    [type |-> type, attached |-> TRUE, show |-> FALSE, frame |-> TRUE, chain |-> "timer"]

\* toast.remove() on every toast that is in the document.
RemoveExisting(ts) == [i \in DOMAIN ts |-> [ts[i] EXCEPT !.attached = FALSE]]

\* showToast: main_js.js removes the toasts in the document first, portfolio.js
\* appends to the container.
PS_showToast(ts, type) == Append(RemoveExisting(ts), NewToast(type))
PW_showToast(ts, type) == Append(ts, NewToast(type))
showToast(ts, type) == IF IsPW THEN PW_showToast(ts, type) ELSE PS_showToast(ts, type)

\* A faulty variant: the failure branch shows its toast twice.
ToastsAfter_TwiceOnFailure(ts, outcome) ==
    IF outcome = "resolve" THEN showToast(ts, "success")
    ELSE showToast(showToast(ts, "error"), "error")

\* The toasts after the try/catch of the submission routine.
ToastsAfter(ts, outcome) ==
    IF outcome = "resolve" THEN showToast(ts, "success") ELSE showToast(ts, "error")

\* The type of the toast each outcome shows.
ToastTypeOf(outcome) == IF outcome = "resolve" THEN "success" ELSE "error"

\* The marks of the fields: [errors, messages, aria].
Marks == [errors |-> fm_errors, messages |-> fm_messages, aria |-> fm_ariaInvalid]

\* The fields of a set in the order of the form.
InFormOrder(S) == SelectSeq(<<"name", "email", "message">>, LAMBDA f : f \in S)

\* main_js.js: showFieldError adds the class and fills the field's error
\* element; clearFieldError undoes both.
PS_showFieldError(st, f) ==
    [st EXCEPT !.errors = @ \cup {f}, !.messages = InFormOrder(Range(@) \cup {f})]
PS_clearFieldError(st, f) ==
    [st EXCEPT !.errors = @ \ {f}, !.messages = InFormOrder(Range(@) \ {f})]

\* portfolio.js: removeFieldError removes field.parentNode.querySelector('.field-error'),
\* the first message under the field's parent: the field's own when each field
\* has its own parent, the oldest of the form's when the fields share one.
PW_removeFieldError(st, f) ==
    [errors |-> st.errors \ {f},
     messages |-> IF fm_sharedParent
                  THEN (IF st.messages = <<>> THEN <<>> ELSE Tail(st.messages))
                  ELSE SelectSeq(st.messages, LAMBDA g : g # f),
     aria |-> st.aria \ {f}]

\* portfolio.js: showFieldError
PW_showFieldError(st, f) ==
    LET r == PW_removeFieldError(st, f)
    IN [errors |-> r.errors \cup {f},
        messages |-> IF fm_sharedParent THEN Append(r.messages, f)
                     ELSE InFormOrder(Range(r.messages) \cup {f}),
        aria |-> r.aria \cup {f}]

\* The marks after validateForm has flagged the failing fields, in the order
\* of its tests.
RECURSIVE PW_flag(_, _, _)
PW_flag(st, order, failing) ==
    IF order = <<>> THEN st
    ELSE PW_flag(IF Head(order) \in failing THEN PW_showFieldError(st, Head(order)) ELSE st,
                 Tail(order), failing)

RECURSIVE PS_flag(_, _, _)
PS_flag(st, order, failing) ==
    IF order = <<>> THEN st
    ELSE PS_flag(IF Head(order) \in failing THEN PS_showFieldError(st, Head(order)) ELSE st,
                 Tail(order), failing)

Flagged(st, failing) ==
    IF IsPW THEN PW_flag(st, <<"email", "name", "message">>, failing)
    ELSE PS_flag(st, <<"name", "email", "message">>, failing)

\* validateField(field) on blur: whether it accepts the value.
PS_validateField(f, v) ==
    CASE f = "name" -> ~(TrimmedLength(v) > 0 /\ TrimmedLength(v) < 2)
      [] f = "email" -> ~(TrimmedLength(v) > 0 /\ ~PS_emailRegexTest(Trim(v)))
      [] f = "message" -> ~(TrimmedLength(v) > 0 /\ TrimmedLength(v) < 10)

PW_validateField(f, v) ==
    CASE f = "email" -> PW_emailRegexTest(Trim(v))
      [] f = "name" -> TrimmedLength(v) >= 2
      [] f = "message" -> TrimmedLength(v) >= 10

validateField(f, v) == IF IsPW THEN PW_validateField(f, v) ELSE PS_validateField(f, v)

\* The marks validateField leaves.
MarksAfterBlur(st, f, v) ==
    IF IsPW
    THEN (IF PW_validateField(f, v) THEN PW_removeFieldError(st, f)
          ELSE [st EXCEPT !.errors = @ \cup {f}])
    ELSE (IF PS_validateField(f, v) THEN PS_clearFieldError(st, f)
          ELSE PS_showFieldError(PS_clearFieldError(st, f), f))

FieldValue(f) ==
    CASE f = "name" -> fm_name
      [] f = "email" -> fm_email
      [] f = "message" -> fm_message

\* input event on a field; main_js.js clears the field's error on input.
Form_Input(field, v) ==
    /\ HasForm
    /\ \/ field = "name" /\ v \in NameValues /\ v # fm_name /\ fm_name' = v
          /\ UNCHANGED <<fm_email, fm_message>>
       \/ field = "email" /\ v \in EmailValues /\ v # fm_email /\ fm_email' = v
          /\ UNCHANGED <<fm_name, fm_message>>
       \/ field = "message" /\ v \in MessageValues /\ v # fm_message /\ fm_message' = v
          /\ UNCHANGED <<fm_name, fm_email>>
    /\ LET st == IF IsPW THEN Marks ELSE PS_clearFieldError(Marks, field)
       IN /\ fm_errors' = st.errors
          /\ fm_messages' = st.messages
          /\ fm_ariaInvalid' = st.aria
    /\ UNCHANGED <<fm_sharedParent, fm_disabled, fm_buttonText, fm_calls, fm_runs,
                   fm_outcomes>>
    /\ UNCHANGED <<toastVars, notForm>>

\* blur event on a field: validateField.
Form_Blur(field) ==
    /\ HasForm
    /\ field \in FieldNames
    /\ LET st == MarksAfterBlur(Marks, field, FieldValue(field))
       IN /\ fm_errors' = st.errors
          /\ fm_messages' = st.messages
          /\ fm_ariaInvalid' = st.aria
    /\ UNCHANGED <<fm_name, fm_email, fm_message, fm_sharedParent, fm_disabled,
                   fm_buttonText, fm_calls, fm_runs, fm_outcomes>>
    /\ UNCHANGED <<toastVars, notForm>>

\* submit event: validateForm, then the submission routine up to its await.
Form_Submit ==
    /\ HasForm
    /\ fm_runs < MaxSubmits
    /\ LET failing == validateForm(fm_name, fm_email, fm_message) IN
       IF failing # {}
       THEN /\ LET st == Flagged(Marks, failing)
               IN /\ fm_errors' = st.errors
                  /\ fm_messages' = st.messages
                  /\ fm_ariaInvalid' = st.aria
            /\ UNCHANGED <<fm_disabled, fm_buttonText, fm_calls, fm_runs>>
       ELSE /\ fm_disabled' = TRUE
            /\ fm_buttonText' = "Sending"
            /\ fm_calls' = Append(fm_calls, [originalText |-> fm_buttonText])
            /\ fm_runs' = fm_runs + 1
            /\ UNCHANGED <<fm_errors, fm_messages, fm_ariaInvalid>>
    /\ UNCHANGED <<fm_name, fm_email, fm_message, fm_sharedParent, fm_outcomes>>
    /\ UNCHANGED <<toastVars, notForm>>

\* The oldest submission in flight settles: the rest of the routine.
Form_Settle(outcome) ==
    /\ HasForm
    /\ fm_calls # <<>>
    /\ outcome \in Outcomes
    /\ toasts' = ToastsAfter(toasts, outcome)
    /\ toastLog' = toastLog \o SubSeq(toasts', Len(toasts) + 1, Len(toasts'))
    /\ IF outcome = "resolve"
       THEN /\ fm_name' = ""
            /\ fm_email' = ""
            /\ fm_message' = ""
            /\ fm_errors' = IF IsPW THEN fm_errors ELSE {}
            /\ fm_messages' = IF IsPW THEN fm_messages ELSE <<>>
       ELSE UNCHANGED <<fm_name, fm_email, fm_message, fm_errors, fm_messages>>
    /\ fm_disabled' = FALSE
    /\ fm_buttonText' = IF IsPW THEN Head(fm_calls).originalText ELSE "Send"
    /\ fm_calls' = Tail(fm_calls)
    /\ fm_outcomes' = Append(fm_outcomes, outcome)
    /\ UNCHANGED <<fm_runs, fm_ariaInvalid, fm_sharedParent, wroteDetached, toastTransition>>
    /\ UNCHANGED notForm

\* The animation frame of toast i: classList.add('show').
Toast_Frame(i) ==
    /\ i \in DOMAIN toasts
    /\ toasts[i].frame
    /\ toasts' = [toasts EXCEPT ![i].frame = FALSE, ![i].show = TRUE]
    /\ wroteDetached' = (wroteDetached \/ ~toasts[i].attached)
    /\ UNCHANGED <<toastLog, toastTransition, formVars, notForm>>

\* The 4000 ms timer of toast i: classList.remove('show'), then main_js.js
\* arms the 300 ms timer and portfolio.js listens for transitionend.
Toast_Timer(i) ==
    /\ i \in DOMAIN toasts
    /\ toasts[i].chain = "timer"
    /\ ~toasts[i].frame
    /\ \A j \in 1..(i - 1) : toasts[j].chain # "timer"
    /\ toasts' = [toasts EXCEPT ![i].chain = "exit", ![i].show = FALSE]
    /\ wroteDetached' = (wroteDetached \/ ~toasts[i].attached)
    /\ UNCHANGED <<toastLog, toastTransition, formVars, notForm>>

\* The end of the chain: main_js.js removes the toast if the body still
\* contains it; in portfolio.js transitionend fires on a toast in the document
\* whose exit runs a transition, and its listener removes the toast.
Toast_Exit(i) ==
    /\ i \in DOMAIN toasts
    /\ toasts[i].chain = "exit"
    /\ IsPW => (toasts[i].attached /\ toastTransition)
    /\ toasts' = [toasts EXCEPT ![i].chain = "done", ![i].attached = FALSE]
    /\ UNCHANGED <<toastLog, wroteDetached, toastTransition, formVars, notForm>>

\* Other code of the page takes toast i out of the document.
Toast_Detach(i) ==
    /\ i \in DOMAIN toasts
    /\ toasts[i].attached
    /\ toasts[i].chain # "done"
    /\ toasts' = [toasts EXCEPT ![i].attached = FALSE]
    /\ UNCHANGED <<toastLog, wroteDetached, toastTransition, formVars, notForm>>

InitForm ==
    /\ script \in {"main_js.js", "portfolio.js"}
    /\ NavAtRest
    /\ IdleReveal
    /\ IdleWidgets
    /\ IdleSetup
    /\ IdleCoalesce
    /\ IdleForm
    /\ IdleToast

NextForm ==
    \/ \E field \in FieldNames, v \in NameValues \cup EmailValues \cup MessageValues :
          Form_Input(field, v)
    \/ Form_Submit
    \/ \E outcome \in {"resolve", "reject"} : Form_Settle(outcome)
    \/ \E i \in 1..MaxSubmits : Toast_Frame(i)
    \/ \E i \in 1..MaxSubmits : Toast_Timer(i)
    \/ \E i \in 1..MaxSubmits : Toast_Exit(i)
    \/ \E i \in 1..MaxSubmits : Toast_Detach(i)

SpecForm == InitForm /\ [][NextForm]_vars

FormValues == <<fm_name, fm_email, fm_message>>

\* C15: a submission that fails shows exactly one error toast, keeps the
\* field values and enables the button again; the routine is never run anew
\* for it (every run is in flight or settled, one per accepted submit event);
\* a submission that succeeds shows one success toast and resets the form.
C15_FailureSurfacedOnce ==
    [][/\ fm_runs' = Len(fm_calls') + Len(fm_outcomes')
       /\ fm_outcomes' # fm_outcomes =>
            LET outcome == fm_outcomes'[Len(fm_outcomes')] IN
            /\ toastLog' = Append(toastLog, NewToast(ToastTypeOf(outcome)))
            /\ Len(fm_calls') = Len(fm_calls) - 1
            /\ ~fm_disabled'
            /\ outcome = "reject" => FormValues' = FormValues
            /\ outcome = "resolve" => FormValues' = <<"", "", "">>]_vars

\* C15: a submission has failed and its error toast is the one in the document.
C15_Witness ==
    /\ fm_outcomes # <<>>
    /\ fm_outcomes[Len(fm_outcomes)] = "reject"
    /\ toastLog # <<>>
    /\ toastLog[Len(toastLog)].type = "error"
    /\ FormValues = <<"Al", "a@b.co", "hello world">>
    /\ ~fm_disabled

\* C16: once a counter element or a toast is out of the document, no later
\* animation-frame or timer callback writes to it: the counter's text stays
\* as it was, and no toast callback has written to a detached toast.
C16_NoWriteToDetached ==
    [][/\ (~ct_attached) => (ct_text' = ct_text /\ ct_shown' = ct_shown)
       /\ ~wroteDetached']_vars

(***************************************************************************)
(* The membership test of the highlight tick, its order and its frame.     *)
(***************************************************************************)
\* No two sections of the registry share a pixel row.
DisjointSections ==
    \A i, j \in 1..Len(sections) :
        i < j => \/ sections[i].top + sections[i].height <= sections[j].top
                 \/ sections[j].top + sections[j].height <= sections[i].top

\* The id of the last section whose closed interval [top, top + height]
\* holds the position; "none" when there is none.
InclusiveLast(scrollPosition) ==
    LET I == {i \in 1..Len(sections) :
                /\ sections[i].top <= scrollPosition
                /\ scrollPosition <= sections[i].top + sections[i].height}
    IN IF I = {} THEN "none"
       ELSE sections[CHOOSE i \in I : \A j \in I : j <= i].id

\* The position the script tests at the page's offset.
TickPosition ==
    IF IsPW THEN scrollY + ActivationLead ELSE scrollY + navHeight + LinkLeadExtra

\* The ids of the sections the tick at the page's offset matches.
MatchedIds ==
    {sections[i].id : i \in {k \in 1..Len(sections) : InSection(TickPosition, sections[k])}}

\* C17: on a registry of disjoint sections, once ticks have run, the active
\* link is the link of the section that holds offset + 100 in its closed
\* interval [top, top + height].
C17_InclusiveMembership ==
    (DisjointSections /\ lastMatched # "none") =>
        LET m == InclusiveLast(scrollY + ActivationLead) IN
        m # "none" => ActiveLinks = {m} \cap links

\* C18: when the tick at the page's offset matched several sections, the link
\* of the last of them is active (if there is such a link) and the link of no
\* other matched section is.
C18_LastMatchWins ==
    (lastMatched # "none" /\ MatchedIds # {}) =>
        LET last == LastMatching(TickPosition) IN
        /\ last \in links => last \in ActiveLinks
        /\ ActiveLinks \cap MatchedIds \subseteq {last}

\* C19: a step that leaves the page at an offset matching no section (a
\* highlight tick that matched nothing) changes the active mark of no link.
C19_NoMatchKeepsMarks ==
    [][MatchedIds' = {} =>
          /\ pw_active' = pw_active
          /\ ps_active' = ps_active
          /\ ActiveLinks' = ActiveLinks]_vars

\* C19 witness: a tick has marked a link and a later tick at an offset in the
\* gap between two sections has left it marked.
C19_Witness ==
    /\ lastMatched # "none"
    /\ MatchedIds = {}
    /\ ActiveLinks = {lastMatched}

(***************************************************************************)
(* Nav chrome under scroll ticks interleaved with theme changes: both       *)
(* handleScroll and the theme code (fixNavigationStyles of dark-mode.js,    *)
(* updateNavigationStyles of portfolio.js) write nav.style.background.      *)
(***************************************************************************)
\* Offsets at the top, past the chrome threshold and past the hide threshold;
\* time passes by a whole coalescing window.
ChromeOffsets == {0, 150, 250}
ChromeSteps == {16}

InitChrome ==
    /\ NavAtRest
    /\ IdleReveal
    /\ IdleProgress
    /\ IdleCounter
    /\ IdleMore
    /\ th_hasToggle = TRUE
    /\ th_stored \in StoredThemes
    /\ th_prefersDark \in BOOLEAN
    /\ th_body = {}
    /\ th_init = FALSE
    /\ th_clicks = 0
    /\ th_preStored = "null"
    /\ th_prePrefersDark = FALSE

\* Scroll events reach the listeners once the page's scripts have run.
Chrome_Scroll(y) ==
    /\ th_init
    /\ RawScroll(y)

Chrome_TimerFires ==
    /\ th_init
    /\ PS_TimerFires

Chrome_Advance(d) ==
    /\ th_init
    /\ Advance(d)

NextChrome ==
    \/ Theme_Init
    \/ Theme_Click
    \/ \E matches \in BOOLEAN : Theme_SystemChange(matches)
    \/ \E y \in ChromeOffsets : Chrome_Scroll(y)
    \/ Chrome_TimerFires
    \/ \E d \in ChromeSteps : Chrome_Advance(d)

SpecChrome == InitChrome /\ [][NextChrome]_vars

\* The nav as handleScroll leaves it at an offset of at most 100.
NavAtTop ==
    IF IsPW THEN pw_navBoxShadow = "none" /\ pw_navBackground = "0.95" ELSE ~PS_scrolled

\* C20: once a tick has been processed the nav has the scrolled background
\* and shadow when the last processed offset is above 100 and the at-top
\* background and no shadow otherwise, whatever theme changes came between.
C20_ChromeFollowsOffset ==
    ticked => IF tickCur > ScrolledThreshold THEN NavScrolled ELSE NavAtTop

(***************************************************************************)
(* The counter under fair delivery of animation frames.                    *)
(***************************************************************************)
\* requestAnimationFrame runs every requested callback in a later frame.
CounterFairness ==
    /\ WF_vars(\E elapsed \in FrameElapsed : PW_CounterFrame(elapsed))
    /\ WF_vars(Draft_CounterFrame)

SpecCounterLive == InitCounter /\ [][NextCounter]_vars /\ CounterFairness

\* The text the finished counter shows is a number, the number of the target
\* directive when the markup gives one, followed by the suffix when the
\* markup gives one.
FinalIsTarget ==
    /\ ct_text # NaN
    /\ ct_dataTarget # NaN => ct_text = ct_dataTarget
    /\ ct_suffixShown = ct_suffix

\* C21: a running counter stops requesting frames after finitely many
\* samples, and the value it ends on is the target, with the suffix when one
\* is given, also for target 0 and for a missing target directive.
C21_TerminatesAtTarget ==
    /\ (ct_state = "running") ~> (ct_state = "done")
    /\ [](ct_state = "done" => FinalIsTarget)

\* C22: over any sequence of intersection callbacks each element is revealed
\* at most once and its counter animation is started at most once, and a
\* revealed element is no longer observed.
C22_RevealedAtMostOnce ==
    \A e \in Targets :
        /\ revealCount[e] <= 1
        /\ pw_counterStarts[e] <= 1
        /\ e \in Revealed => e \notin ioTargets

(***************************************************************************)
(* Scroll handling interleaved with intersection callbacks.                *)
(***************************************************************************)
InterleaveOffsets == {0, 250}

InitInterleave ==
    /\ NavAtRest
    /\ IdleWidgets
    /\ IdleMore
    /\ ioTargets = Targets
    /\ ioQueue = <<>>
    /\ hasCounter = (IF IsPW THEN {1} ELSE {})
    /\ pw_loaded = {}
    /\ pw_counterStarts = [e \in Targets |-> 0]
    /\ ps_animated = {}
    /\ lateEntry = {}
    /\ revealCount = [e \in Targets |-> 0]

\* The callback runs before the browser queues a second entry.
Interleave_Notify(e, b) ==
    /\ ioQueue = <<>>
    /\ IO_Notify(e, b)

NextInterleave ==
    \/ \E e \in Targets, b \in BOOLEAN : Interleave_Notify(e, b)
    \/ IO_Deliver
    \/ \E y \in InterleaveOffsets : RawScroll(y)
    \/ PS_TimerFires
    \/ \E d \in ChromeSteps : Advance(d)
    \/ \E y \in InterleaveOffsets : PW_HighlightTick(y)

SpecInterleave == InitInterleave /\ [][NextInterleave]_vars

\* What the scroll listeners and their timers write, and what the
\* intersection callback writes.
ScrollSide == <<scrollY, scrollVars, linkVars>>
RevealSide == <<Revealed, ioTargets, pw_counterStarts>>

\* C23: no step changes both sides: a scroll or highlight tick leaves every
\* element's reveal and observation as they were, and an intersection
\* callback leaves the last offset, the nav and the active link as they were.
C23_DisjointState ==
    [][ScrollSide' = ScrollSide \/ RevealSide' = RevealSide]_vars

\* C23 witness: ticks have hidden the nav and marked a link, and a callback
\* has revealed an element.
C23_Witness ==
    /\ ticked
    /\ NavHidden
    /\ ActiveLinks # {}
    /\ Revealed # {}

(***************************************************************************)
(* Teardown: PortfolioSite.destroy (main_js.js; PortfolioWebsite has no    *)
(* teardown).                                                              *)
(***************************************************************************)
\* window.removeEventListener('scroll', fn) removes the registration of that
\* very function, and nothing when fn was never registered.
RemoveEventListener(listeners, fn) == listeners \ {fn}

\* The value of this.handleScroll: setupScrollNavigation keeps its handler in
\* a local const, the instance has no property of that name.
PS_thisHandleScroll == "undefined"

InitDestroy ==
    /\ InitInterleave
    /\ IsPS

\* A scroll event reaches the listeners still registered.
Destroy_Scroll(y) ==
    /\ "handleScroll" \in ps_scrollListeners
    /\ RawScroll(y)

\* destroy(); a disconnected observer delivers the entries it has queued or
\* drops them, as the browser decides.
PS_Destroy ==
    /\ IsPS
    /\ ~ps_destroyed
    /\ ps_destroyed' = TRUE
    /\ ps_scrollListeners' = RemoveEventListener(ps_scrollListeners, PS_thisHandleScroll)
    /\ ioTargets' = {}
    /\ ioQueue' \in {<<>>, ioQueue}
    /\ ps_scrollTimeout' = -1
    /\ UNCHANGED <<hasCounter, pw_loaded, pw_counterStarts, ps_animated, lateEntry,
                   revealCount>>
    /\ UNCHANGED <<scrollY, innerWidth, pw_lastCallAge, pw_lastScrollY, pw_navTransform,
                   pw_navBackground, pw_navBoxShadow, ps_lastScrollY, ps_navClasses,
                   linkVars, tickObs, rawObs>>
    /\ UNCHANGED <<pageVars, progressVars, counterVars, themeVars, setupVars, coalesceVars,
                   formVars, toastVars, detachVars, menuVars, parallaxVars>>

NextDestroy ==
    \/ \E e \in Targets, b \in BOOLEAN : Interleave_Notify(e, b)
    \/ IO_Deliver
    \/ \E y \in InterleaveOffsets : Destroy_Scroll(y)
    \/ PS_TimerFires
    \/ \E d \in ChromeSteps : Advance(d)
    \/ PS_Destroy

SpecDestroy == InitDestroy /\ [][NextDestroy]_vars

\* C24: once destroy() has returned, no scroll event, intersection or timer
\* changes the nav's classes, the stored last offset, the active links or the
\* reveal of an element, and no timer is pending.
C24_DestroyIsComplete ==
    [][ps_destroyed =>
          /\ ps_navClasses' = ps_navClasses
          /\ ps_lastScrollY' = ps_lastScrollY
          /\ ActiveLinks' = ActiveLinks
          /\ Revealed' = Revealed
          /\ ps_scrollTimeout' = -1]_vars

\* C25: however many scroll events arrive between two frames, at most one
\* progress callback is pending for the next frame (pg_frames counts the
\* callbacks requested since the last frame, each of which writes the width).
C25_OneProgressUpdatePerFrame == pg_frames <= 1

(***************************************************************************)
(* Validation: submit, blur and input events on the form, on markup where  *)
(* each field has its own parent and on markup where the fields share one. *)
(***************************************************************************)
InitValidate ==
    /\ script \in {"main_js.js", "portfolio.js"}
    /\ NavAtRest
    /\ IdleReveal
    /\ IdleWidgets
    /\ IdleSetup
    /\ IdleCoalesce
    /\ IdleToast
    /\ fm_name = ""
    /\ fm_email = ""
    /\ fm_message = ""
    /\ fm_errors = {}
    /\ fm_messages = <<>>
    /\ fm_ariaInvalid = {}
    /\ fm_sharedParent \in (IF IsPW THEN BOOLEAN ELSE {FALSE})
    /\ fm_disabled = FALSE
    /\ fm_buttonText = "Send"
    /\ fm_calls = <<>>
    /\ fm_runs = 0
    /\ fm_outcomes = <<>>

NextValidate ==
    \/ \E field \in FieldNames, v \in NameValues \cup EmailValues \cup MessageValues :
          Form_Input(field, v)
    \/ \E field \in FieldNames : Form_Blur(field)
    \/ Form_Submit
    \/ \E outcome \in {"resolve", "reject"} : Form_Settle(outcome)

SpecValidate == InitValidate /\ [][NextValidate]_vars

\* The fields whose value fails the stated rule: a trimmed name of at least 2
\* characters, an email that matches the script's pattern, a trimmed message
\* of at least 10 characters.
FailingFields ==
    (IF TrimmedLength(fm_name) >= 2 THEN {} ELSE {"name"})
    \cup (IF (IF IsPW THEN PW_emailRegexTest(Trim(fm_email))
              ELSE PS_emailRegexTest(Trim(fm_email))) THEN {} ELSE {"email"})
    \cup (IF TrimmedLength(fm_message) >= 10 THEN {} ELSE {"message"})

\* C26: a submission starts only when no field fails; a submit event with a
\* failing field leaves every failing field with the class error and an
\* inline message, and starts no submission, shows no toast and keeps the
\* field values.
C26_ValidationGatesSubmission ==
    [][/\ fm_runs' # fm_runs => FailingFields = {}
       /\ (Form_Submit /\ FailingFields # {}) =>
            /\ FailingFields \subseteq fm_errors'
            /\ FailingFields \subseteq Range(fm_messages')
            /\ <<fm_calls, fm_runs, toasts, FormValues>>' =
                   <<fm_calls, fm_runs, toasts, FormValues>>]_vars

\* C27: the submit button is disabled exactly while a submission is in
\* flight, and once every submission in flight has completed the button is
\* enabled and shows its original label.
C27_ButtonTracksFlight ==
    /\ fm_disabled <=> fm_calls # <<>>
    /\ fm_calls = <<>> => fm_buttonText = "Send"

(***************************************************************************)
(* The two validators on the same values: every field holds any of the     *)
(* values, padded ones included; blur runs validateField and a submit      *)
(* event runs validateForm.                                                *)
(***************************************************************************)
AgreeValues == NameValues \cup EmailValues \cup MessageValues \cup PaddedValues

InitAgree ==
    /\ script \in {"main_js.js", "portfolio.js"}
    /\ NavAtRest
    /\ IdleReveal
    /\ IdleWidgets
    /\ IdleSetup
    /\ IdleCoalesce
    /\ IdleToast
    /\ fm_name \in AgreeValues
    /\ fm_email \in AgreeValues
    /\ fm_message \in AgreeValues
    /\ fm_errors = {}
    /\ fm_messages = <<>>
    /\ fm_ariaInvalid = {}
    /\ fm_sharedParent = FALSE
    /\ fm_disabled = FALSE
    /\ fm_buttonText = "Send"
    /\ fm_calls = <<>>
    /\ fm_runs = 0
    /\ fm_outcomes = <<>>

\* A submit event that validateForm turns down.
Agree_Submit ==
    /\ validateForm(fm_name, fm_email, fm_message) # {}
    /\ Form_Submit

NextAgree ==
    \/ \E field \in FieldNames : Form_Blur(field)
    \/ Agree_Submit

SpecAgree == InitAgree /\ [][NextAgree]_vars

\* C28: for every field and every value, validateField accepts the value
\* exactly when validateForm raises no error for that field with the same
\* value.
C28_BlurAgreesWithSubmit ==
    \A f \in FieldNames :
        validateField(f, FieldValue(f))
            <=> f \notin validateForm(fm_name, fm_email, fm_message)

\* C29: once a submission has succeeded no field carries the class error, an
\* inline error message or aria-invalid.
C29_SuccessClearsErrors ==
    [][(Len(fm_outcomes') > Len(fm_outcomes)
            /\ fm_outcomes'[Len(fm_outcomes')] = "resolve")
        => (fm_errors' = {} /\ fm_messages' = <<>> /\ fm_ariaInvalid' = {})]_vars

(***************************************************************************)
(* The mobile menu: clicks on the toggle, on a link of the menu and        *)
(* outside the menu, and the Escape key, between scroll ticks.             *)
(***************************************************************************)
psMenuVars == <<ps_menuCreated, ps_cloneActive, ps_menuOpen, ps_ariaExpanded>>
notMenu == <<pageVars, scrollY, innerWidth, scrollVars, tickObs, rawObs, pw_active,
            ps_active, revealVars, progressVars, counterVars, themeVars, setupVars,
            coalesceVars, formVars, toastVars, detachVars, destroyVars, parallaxVars>>

\* part_000: openMobileMenu / closeMobileMenu
PW_openMobileMenu ==
    /\ pw_menuActive' = TRUE
    /\ pw_ariaExpanded' = "true"
    /\ bodyOverflow' = "hidden"

PW_closeMobileMenu ==
    /\ pw_menuActive' = FALSE
    /\ pw_ariaExpanded' = "false"
    /\ bodyOverflow' = ""

\* portfolio.js: the mobile-menu part of closeAllModals.
PW_closeAllModals ==
    /\ pw_menuActive' = FALSE
    /\ pw_ariaExpanded' = "false"
    /\ UNCHANGED bodyOverflow

\* Click on the toggle button; portfolio.js registers no listener for it.
Menu_ToggleClick ==
    /\ script # "portfolio.js"
    /\ IF IsPS
       THEN PS_toggleMobileMenu /\ UNCHANGED menuVars
       ELSE /\ IF pw_menuActive THEN PW_closeMobileMenu ELSE PW_openMobileMenu
            /\ UNCHANGED psMenuVars
    /\ UNCHANGED notMenu

\* Click on a link of the menu: part_000 closes the menu, handleNavClick of
\* main_js.js closes it when the link's target exists.
Menu_LinkClick(targetExists) ==
    /\ script # "portfolio.js"
    /\ IF IsPS
       THEN /\ ps_menuCreated
            /\ IF targetExists THEN PS_closeMobileMenu ELSE UNCHANGED psMenuVars
            /\ UNCHANGED menuVars
       ELSE /\ PW_closeMobileMenu
            /\ UNCHANGED psMenuVars
    /\ UNCHANGED notMenu

\* Click outside the menu and its button (main_js.js: outside the nav).
Menu_OutsideClick ==
    /\ script # "portfolio.js"
    /\ IF IsPS
       THEN PS_closeMobileMenu /\ UNCHANGED menuVars
       ELSE PW_closeMobileMenu /\ UNCHANGED psMenuVars
    /\ UNCHANGED notMenu

\* keydown with key Escape.
Menu_Escape ==
    /\ CASE IsPS -> PS_closeMobileMenu /\ UNCHANGED menuVars
         [] script = "part_000" ->
               /\ IF pw_menuActive THEN PW_closeMobileMenu ELSE UNCHANGED menuVars
               /\ UNCHANGED psMenuVars
         [] script = "portfolio.js" -> PW_closeAllModals /\ UNCHANGED psMenuVars
    /\ UNCHANGED notMenu

InitMenu ==
    /\ InitHighlight
    /\ sections = HomeLayout
    /\ navHeight = 50
    /\ innerWidth = 768

NextMenu ==
    \/ Menu_ToggleClick
    \/ \E targetExists \in BOOLEAN : Menu_LinkClick(targetExists)
    \/ Menu_OutsideClick
    \/ Menu_Escape
    \/ \E y \in InterleaveOffsets : PW_HighlightTick(y)
    \/ \E y \in InterleaveOffsets : PS_ScrollTick(y)

SpecMenu == InitMenu /\ [][NextMenu]_vars

MenuOpen == IF IsPS THEN ps_menuOpen ELSE pw_menuActive
AriaExpanded == IF IsPS THEN ps_ariaExpanded ELSE pw_ariaExpanded

\* C30: in every reachable state the toggle's aria-expanded is 'true' exactly
\* when the menu is open and the body's overflow is hidden exactly when the
\* menu is open; Escape and a click outside leave the menu closed.
C30_MenuConsistent ==
    /\ [](/\ AriaExpanded = "true" <=> MenuOpen
          /\ bodyOverflow = "hidden" <=> MenuOpen)
    /\ [][(Menu_Escape \/ Menu_OutsideClick) => ~MenuOpen']_vars

\* C31: once initDarkMode has run on a page with the toggle, the body carries
\* exactly one of light-mode and dark-mode, and the theme that is stored is
\* the one applied; every click on the toggle flips the applied theme.
C31_ExactlyOneThemeClass ==
    /\ []((th_init /\ th_hasToggle) =>
            /\ Cardinality(th_body \cap ThemeClasses) = 1
            /\ th_stored # "null" => Applied(th_stored))
    /\ [][th_clicks' # th_clicks =>
            \E theme \in {"light", "dark"} : Applied(theme) /\ Applied(OtherTheme(theme))']_vars

\* C32: a change of the system colour scheme leaves the body's classes and
\* the stored value alone when a theme is stored (the toggle has been
\* clicked); with nothing stored, on an initialized page with the toggle, the
\* applied theme is the new system preference.
C32_SystemChangeRespectsStored ==
    [][th_prefersDark' # th_prefersDark =>
         /\ (th_clicks > 0 \/ th_stored # "null") =>
                (th_body' = th_body /\ th_stored' = th_stored /\ th_stored # "null")
         /\ (th_stored = "null" /\ th_init /\ th_hasToggle) =>
                \E theme \in {"light", "dark"} :
                    /\ theme = (IF th_prefersDark' THEN "dark" ELSE "light")
                    /\ Applied(theme)']_vars

\* C32 witness: the system turned dark after a click that stored 'light', and
\* the page is still light.
C32_Witness ==
    /\ th_clicks >= 1
    /\ ~th_prePrefersDark
    /\ th_prefersDark
    /\ th_stored = "light"
    /\ Applied("light")

(***************************************************************************)
(* Toasts on their own: showToast called by any code of the page, the      *)
(* frame, the timers and the transitionend listener of each toast, on a    *)
(* page whose stylesheet gives the exit a transition and on one where the  *)
(* exit runs none.                                                         *)
(***************************************************************************)
MaxToasts == 3

InitToast ==
    /\ script \in {"main_js.js", "portfolio.js"}
    /\ NavAtRest
    /\ IdleReveal
    /\ IdleWidgets
    /\ IdleSetup
    /\ IdleCoalesce
    /\ IdleForm
    /\ toasts = <<>>
    /\ toastLog = <<>>
    /\ wroteDetached = FALSE
    /\ toastTransition \in (IF IsPW THEN BOOLEAN ELSE {TRUE})
    /\ ct_attached = TRUE
    /\ ps_scrollListeners = {"handleScroll"}
    /\ ps_destroyed = FALSE
    /\ pw_menuActive = FALSE
    /\ pw_ariaExpanded = "false"
    /\ bodyOverflow = ""
    /\ IdleParallax

\* showToast(message, type)
Toast_Show(type) ==
    /\ HasForm
    /\ Len(toasts) < MaxToasts
    /\ toasts' = showToast(toasts, type)
    /\ toastLog' = Append(toastLog, type)
    /\ UNCHANGED <<wroteDetached, toastTransition, formVars, notForm>>

NextToast ==
    \/ \E type \in ToastTypes : Toast_Show(type)
    \/ \E i \in 1..MaxToasts : Toast_Frame(i)
    \/ \E i \in 1..MaxToasts : Toast_Timer(i)
    \/ \E i \in 1..MaxToasts : Toast_Exit(i)
    \/ \E i \in 1..MaxToasts : Toast_Detach(i)

\* The browser runs every requested frame and every armed timer, and
\* delivers transitionend when a transition has run.
ToastFairness ==
    \A i \in 1..MaxToasts :
        /\ WF_vars(Toast_Frame(i))
        /\ WF_vars(Toast_Timer(i))
        /\ WF_vars(Toast_Exit(i))

SpecToast == InitToast /\ [][NextToast]_vars /\ ToastFairness

InDocument(i) == i \in DOMAIN toasts /\ toasts[i].attached

\* C33: every toast that is shown is in the end out of the document; a step
\* that shows no toast changes one toast at most, and never a toast newer
\* than one that is still in the document; where showToast replaces the
\* toasts (main_js.js) at most one toast is in the document.
C33_ToastLifecycle ==
    /\ \A i \in 1..MaxToasts : InDocument(i) ~> ~InDocument(i)
    /\ [][Len(toasts') = Len(toasts) =>
            Cardinality({i \in DOMAIN toasts : toasts'[i] # toasts[i]}) <= 1]_vars
    /\ [](IsPS => Cardinality({i \in DOMAIN toasts : toasts[i].attached}) <= 1)

(***************************************************************************)
(* Hero parallax (setupAnimations of portfolio.js and part_000): the       *)
(* scroll listener with its ticking flag and the animation-frame callback. *)
(***************************************************************************)
notParallax == <<script, innerWidth, scrollVars, linkVars, tickObs, rawObs, sections, links,
                 navHeight, revealVars, progressVars, counterVars, themeVars, setupVars,
                 coalesceVars, formVars, toastVars, detachVars, destroyVars, menuVars>>

\* A faulty variant: every scroll event requests a frame.
PW_parallaxSchedules_Always(ticking) == TRUE

\* if (!ticking)
PW_parallaxSchedules(ticking) == ~ticking

\* scrolled * 0.2, in tenths of a pixel
PW_parallax(scrolled) == 2 * scrolled

\* A scroll event at offset y.
Parallax_Scroll(y) ==
    /\ IsPW
    /\ y # scrollY
    /\ scrollY' = y
    /\ IF px_enabled
       THEN /\ IF PW_parallaxSchedules(px_ticking)
               THEN px_pending' = px_pending + 1 /\ px_ticking' = TRUE
               ELSE UNCHANGED <<px_pending, px_ticking>>
            /\ px_scrolled' = TRUE
            /\ px_coalesced' = (px_coalesced \/ px_pending > 0)
       ELSE UNCHANGED <<px_pending, px_ticking, px_scrolled, px_coalesced>>
    /\ UNCHANGED <<px_enabled, px_transform>>
    /\ UNCHANGED notParallax

\* The animation frame runs the callbacks requested since the last one.
Parallax_Frame ==
    /\ px_pending > 0
    /\ px_pending' = 0
    /\ px_transform' = PW_parallax(scrollY)
    /\ px_ticking' = FALSE
    /\ UNCHANGED <<scrollY, px_enabled, px_scrolled, px_coalesced>>
    /\ UNCHANGED notParallax

InitParallax ==
    /\ InitScrollNav
    /\ IsPW
    /\ innerWidth = 768
    /\ IdleReveal
    /\ IdleWidgets
    /\ IdleSetup
    /\ IdleCoalesce
    /\ IdleForm
    /\ IdleAux
    /\ px_enabled \in BOOLEAN
    /\ px_ticking = FALSE
    /\ px_pending = 0
    /\ px_transform = -1
    /\ px_scrolled = FALSE
    /\ px_coalesced = FALSE

NextParallax ==
    \/ \E y \in Offsets : Parallax_Scroll(y)
    \/ Parallax_Frame

\* The browser runs every requested animation frame.
SpecParallax == InitParallax /\ [][NextParallax]_vars /\ WF_vars(Parallax_Frame)

\* C34: ticking is true exactly while one parallax callback is pending, and
\* never more than one is; a scroll event that arrives while it is true
\* requests nothing; the translation written is that of the offset at the
\* frame; a pending callback runs, and once none is pending after a scroll
\* the translation is that of the current offset.
C34_ParallaxCoalesced ==
    /\ [](px_pending = (IF px_ticking THEN 1 ELSE 0))
    /\ [][(scrollY' # scrollY /\ px_ticking) => px_pending' = px_pending]_vars
    /\ [][px_transform' # px_transform => px_transform' = PW_parallax(scrollY)]_vars
    /\ px_ticking ~> ~px_ticking
    /\ []((px_enabled /\ px_scrolled /\ ~px_ticking) => px_transform = PW_parallax(scrollY))

\* C34 witness: scroll events arrived while a callback was pending, the frame
\* has run, and the translation is that of the final offset 250.
C34_Witness ==
    /\ px_enabled
    /\ px_coalesced
    /\ ~px_ticking
    /\ scrollY = 250
    /\ px_transform = 500

====
